---- MODULE Spec2Model ----
(***************************************************************************)
(* GophKeeper, server side: the secrets table, the PostgresSyncRepository  *)
(* operations on it, SyncService.Sync and the soft-delete cleaner.         *)
(*                                                                         *)
(* The table `secrets` has PRIMARY KEY (id): it is a function from the ids *)
(* that have a row to the row.  The columns type, data and comment are     *)
(* always written together from one incoming models.Secret and are never   *)
(* read by the server; the field `data` stands for the three of them.      *)
(***************************************************************************)
EXTENDS Integers, Sequences, FiniteSets, TLC

\* ------------------------------------------------------------ bounds
MaxVersion == 2
MaxRequest == 2
MaxTime == 4

\* retention window of the cleaner, in units of 30 days (main.go: 30*24*time.Hour)
Retention == 1

IDs == {"s1", "s2"}
Owners == {"alice", "bob"}
Data == {"d1", "d2"}
Versions == 1..MaxVersion

Times == 1..MaxTime

\* models.Secret as it travels in a request or a response
Secret == [id : IDs, data : Data, version : Versions, deleted : BOOLEAN]

\* the secrets a client submits: Sync reads nothing but the id of a secret
\* flagged deleted, so the tombstones submitted carry one payload
LiveSecrets == {s \in Secret : ~s.deleted}
Tombstones == {s \in Secret : s.deleted /\ s.data = "d1"}
Submitted == LiveSecrets \cup Tombstones

\* a row of the table secrets
Row == [user_login : Owners, data : Data, version : Versions, deleted : BOOLEAN]

\* clientVersions: map[string]int64, with at most n entries
KnownMaps(n) ==
    UNION {[S -> Versions] : S \in {T \in SUBSET IDs : Cardinality(T) <= n}}

\* the request bodies: secrets and versions, MaxRequest entries in all
Requests ==
    UNION {[incoming : [1..n -> Submitted], versions : KnownMaps(MaxRequest - n)] :
              n \in 0..MaxRequest}

NoCall == [op |-> "none"]

VARIABLES
    secrets,    \* the table secrets (committed rows)
    call,       \* the request being answered (with the table as it was when
                \* it arrived) and its result, NoCall when none
    tx,         \* the open transactions of concurrent UpsertIfNewer calls
    users,      \* the table users: the logins enrolled
    issued,     \* the certificates handed out by enrollment
    served,     \* the HTTP request last served, with what the server did for it
    jan,        \* the goroutine of StartSoftDeleteCleaner, its ticker and context
    ls,         \* the client's LocalStorage: Secrets, Version and the deleted index
    file,       \* the client's storage.json
    ret,        \* the shell command last run on the cache, with its result
    loop,       \* the round trip of the client's sync loop
    seen,       \* the ids the client's cache has ever held
    now,        \* the client's clock, time.Now().Unix()
    sy,         \* what the SyncWithServer call that has just returned did
    online,     \* the server answers /api/sync with 200 and a body that decodes
    th,         \* the client's two goroutines, statement by statement: where
                \* each is and what it holds
    mu,         \* who holds ls.mu
    box,        \* a payload on its way through Edit and List
    enr,        \* the enrollment requests being handled, statement by
                \* statement, and the certificates each login was sent
    srv         \* the server's clock, and when each tombstone in the table
                \* was made

dbVars == <<secrets, call, tx>>
httpVars == <<users, issued, served>>
cacheVars == <<ls, file, ret, loop, seen, now>>
clientVars == <<sy, online, th, mu, box>>

vars == <<secrets, call, tx, users, issued, served, jan, ls, file, ret, loop, seen,
          now, sy, online, th, mu, box, enr, srv>>

Range(s) == {s[i] : i \in DOMAIN s}

Max(S) == CHOOSE x \in S : \A y \in S : y <= x

\* SelectSeq with a predicate given as a set of accepted elements
RECURSIVE Filter(_, _)
Filter(s, keep) ==
    IF s = <<>> THEN <<>>
    ELSE IF Head(s) \in keep THEN <<Head(s)>> \o Filter(Tail(s), keep)
         ELSE Filter(Tail(s), keep)

RECURSIVE IdsOf(_)
IdsOf(s) == IF s = <<>> THEN <<>> ELSE <<Head(s).id>> \o IdsOf(Tail(s))

\* ------------------------------------------------- PostgresSyncRepository

\* SELECT COALESCE(MAX(version), 0) FROM secrets
\*  WHERE user_login = $1 AND deleted = false
GetMaxVersion(t, userID) ==
    LET vs == {t[id].version : id \in {i \in DOMAIN t :
                   t[i].user_login = userID /\ t[i].deleted = FALSE}}
    IN IF vs = {} THEN 0 ELSE Max(vs)

\* UPDATE secrets SET deleted = true WHERE user_login = $1 AND id = ANY($2)
DeleteSecrets(t, userID, ids) ==
    [id \in DOMAIN t |->
        IF t[id].user_login = userID /\ id \in ids
        THEN [t[id] EXCEPT !.deleted = TRUE]
        ELSE t[id]]

\* SELECT version FROM secrets WHERE id = $1 AND user_login = $2 AND deleted = false
\* found = FALSE is sql.ErrNoRows
SelectVersion(t, userID, id) ==
    IF id \in DOMAIN t /\ t[id].user_login = userID /\ t[id].deleted = FALSE
    THEN [found |-> TRUE, version |-> t[id].version]
    ELSE [found |-> FALSE, version |-> 0]

\* ExecUpsert with "deleted = false" missing from DO UPDATE SET
ExecUpsert_KeepsDeleted(t, userID, sec) ==
    IF sec.id \in DOMAIN t
    THEN [t EXCEPT ![sec.id] = [user_login |-> t[sec.id].user_login,
                                data |-> sec.data,
                                version |-> sec.version,
                                deleted |-> t[sec.id].deleted]]
    ELSE [id \in DOMAIN t \cup {sec.id} |->
            IF id = sec.id
            THEN [user_login |-> userID, data |-> sec.data,
                  version |-> sec.version, deleted |-> FALSE]
            ELSE t[id]]

\* INSERT INTO secrets (...) VALUES (..., false)
\* ON CONFLICT (id) DO UPDATE SET type, data, comment, version, deleted = false
\* (the conflict target is id alone: user_login of an existing row is kept)
ExecUpsert(t, userID, sec) ==
    IF sec.id \in DOMAIN t
    THEN [t EXCEPT ![sec.id] = [user_login |-> t[sec.id].user_login,
                                data |-> sec.data,
                                version |-> sec.version,
                                deleted |-> FALSE]]
    ELSE [id \in DOMAIN t \cup {sec.id} |->
            IF id = sec.id
            THEN [user_login |-> userID, data |-> sec.data,
                  version |-> sec.version, deleted |-> FALSE]
            ELSE t[id]]

\* the loop of UpsertIfNewer over the batch, inside one transaction
RECURSIVE UpsertLoop(_, _, _, _, _)
UpsertLoop(t, userID, secs, updated, skipped) ==
    IF secs = <<>>
    THEN [table |-> t, updated |-> updated, skipped |-> skipped]
    ELSE LET sec == Head(secs)
             existing == SelectVersion(t, userID, sec.id)
         IN IF existing.found /\ existing.version >= sec.version
            THEN UpsertLoop(t, userID, Tail(secs), updated,
                            Append(skipped, sec.id))
            ELSE UpsertLoop(ExecUpsert(t, userID, sec), userID, Tail(secs),
                            Append(updated, sec.id), skipped)

UpsertIfNewer(t, userID, secs) == UpsertLoop(t, userID, secs, <<>>, <<>>)

\* SELECT ... FROM secrets WHERE user_login = $1 AND deleted = false,
\* then keep the rows the client does not know or knows at a lower version
GetNewerSecrets(t, userID, versions) ==
    {[id |-> id, data |-> t[id].data, version |-> t[id].version,
      deleted |-> t[id].deleted] :
        id \in {i \in DOMAIN t :
                  /\ t[i].user_login = userID
                  /\ t[i].deleted = FALSE
                  /\ (i \notin DOMAIN versions \/ t[i].version > versions[i])}}

\* ------------------------------------------------------- SyncService.Sync

\* Sync with the pull taken first: GetNewerSecrets reads the table before
\* DeleteSecrets and UpsertIfNewer have written
SyncResult_PullFirst(t, userID, incoming, clientVersions) ==
    LET toUpsert == Filter(incoming, {s \in Secret : ~s.deleted})
        toDelete == IdsOf(Filter(incoming, {s \in Secret : s.deleted}))
        t1 == IF Len(toDelete) > 0
              THEN DeleteSecrets(t, userID, Range(toDelete)) ELSE t
        up == IF Len(toUpsert) > 0
              THEN UpsertIfNewer(t1, userID, toUpsert)
              ELSE [table |-> t1, updated |-> <<>>, skipped |-> <<>>]
    IN [table |-> up.table,
        version |-> GetMaxVersion(up.table, userID),
        updated |-> up.updated,
        skipped |-> up.skipped,
        secrets |-> GetNewerSecrets(t, userID, clientVersions)]

\* Sync that returns at once when the request carries no secret
SyncResult_EmptyReturnsEarly(t, userID, incoming, clientVersions) ==
    LET toUpsert == Filter(incoming, {s \in Secret : ~s.deleted})
        toDelete == IdsOf(Filter(incoming, {s \in Secret : s.deleted}))
        t1 == IF Len(toDelete) > 0
              THEN DeleteSecrets(t, userID, Range(toDelete)) ELSE t
        up == IF Len(toUpsert) > 0
              THEN UpsertIfNewer(t1, userID, toUpsert)
              ELSE [table |-> t1, updated |-> <<>>, skipped |-> <<>>]
    IN IF Len(incoming) = 0
       THEN [table |-> t, version |-> 0, updated |-> <<>>, skipped |-> <<>>,
             secrets |-> {}]
       ELSE [table |-> up.table,
             version |-> GetMaxVersion(up.table, userID),
             updated |-> up.updated,
             skipped |-> up.skipped,
             secrets |-> GetNewerSecrets(up.table, userID, clientVersions)]

\* the whole of Sync on table t: partition, DeleteSecrets, UpsertIfNewer,
\* GetNewerSecrets, GetMaxVersion, in this order
SyncResult(t, userID, incoming, clientVersions) ==
    LET toUpsert == Filter(incoming, {s \in Secret : ~s.deleted})
        toDelete == IdsOf(Filter(incoming, {s \in Secret : s.deleted}))
        t1 == IF Len(toDelete) > 0
              THEN DeleteSecrets(t, userID, Range(toDelete)) ELSE t
        up == IF Len(toUpsert) > 0
              THEN UpsertIfNewer(t1, userID, toUpsert)
              ELSE [table |-> t1, updated |-> <<>>, skipped |-> <<>>]
    IN [table |-> up.table,
        version |-> GetMaxVersion(up.table, userID),
        updated |-> up.updated,
        skipped |-> up.skipped,
        secrets |-> GetNewerSecrets(up.table, userID, clientVersions)]

\* POST /api/sync handled for the authenticated userID
Sync(userID, incoming, clientVersions) ==
    /\ call = NoCall
    /\ LET r == SyncResult(secrets, userID, incoming, clientVersions)
       IN /\ secrets' = r.table
          /\ call' = [op |-> "Sync", userID |-> userID, incoming |-> incoming,
                      versions |-> clientVersions, before |-> secrets,
                      version |-> r.version, updated |-> r.updated,
                      skipped |-> r.skipped, secrets |-> r.secrets]
    /\ UNCHANGED <<tx, httpVars, jan, cacheVars, clientVars, enr, srv>>

\* the response has been written; the server is ready for the next request
Respond ==
    /\ call # NoCall
    /\ call' = NoCall
    /\ UNCHANGED <<secrets, tx, httpVars, jan, cacheVars, clientVars, enr, srv>>

\* ------------------------------------------ Sync when a store step fails

\* the repository calls of Sync, in the order Sync makes them
SyncSteps == <<"DeleteSecrets", "UpsertIfNewer", "GetNewerSecrets", "GetMaxVersion">>

\* the result of a Sync that returned an error: return nil, err
NoResult == [nil |-> TRUE]

\* Sync that logs the error of a step and goes on with the next step
OnStepError_Continue == "continue"

\* what Sync does when a repository call returns an error: return nil, err
OnStepError == "return"

\* Sync on table t when the repository call `step` returns an error.  A
\* failed statement changes nothing: DeleteSecrets is one UPDATE, and
\* UpsertIfNewer rolls its transaction back (defer tx.Rollback()).  The
\* calls made before it are committed: each is a statement or a transaction
\* of its own.  A call that Sync does not make cannot fail.
SyncWithFault(t, userID, incoming, clientVersions, step) ==
    LET toUpsert == Filter(incoming, {s \in Secret : ~s.deleted})
        toDelete == IdsOf(Filter(incoming, {s \in Secret : s.deleted}))
        stop1 == Len(toDelete) > 0 /\ step = "DeleteSecrets"
                 /\ OnStepError = "return"
        t1 == IF Len(toDelete) > 0 /\ step # "DeleteSecrets"
              THEN DeleteSecrets(t, userID, Range(toDelete)) ELSE t
        stop2 == stop1 \/ (Len(toUpsert) > 0 /\ step = "UpsertIfNewer"
                           /\ OnStepError = "return")
        up == IF ~stop1 /\ Len(toUpsert) > 0 /\ step # "UpsertIfNewer"
              THEN UpsertIfNewer(t1, userID, toUpsert)
              ELSE [table |-> t1, updated |-> <<>>, skipped |-> <<>>]
        stop3 == stop2 \/ (step = "GetNewerSecrets" /\ OnStepError = "return")
        newer == IF ~stop2 /\ step # "GetNewerSecrets"
                 THEN GetNewerSecrets(up.table, userID, clientVersions) ELSE {}
        stop4 == stop3 \/ (step = "GetMaxVersion" /\ OnStepError = "return")
        version == IF ~stop3 /\ step # "GetMaxVersion"
                   THEN GetMaxVersion(up.table, userID) ELSE 0
    IN [table |-> up.table,
        result |-> IF stop4 THEN NoResult
                   ELSE [nil |-> FALSE, version |-> version,
                         updated |-> up.updated, skipped |-> up.skipped,
                         secrets |-> newer]]

\* the repository call `step` is made by a Sync of incoming
StepRuns(incoming, step) ==
    \/ step = "DeleteSecrets" /\ \E i \in DOMAIN incoming : incoming[i].deleted
    \/ step = "UpsertIfNewer" /\ \E i \in DOMAIN incoming : ~incoming[i].deleted
    \/ step \in {"GetNewerSecrets", "GetMaxVersion"}

\* POST /api/sync handled for userID while the repository call `step` fails
SyncFails(userID, incoming, clientVersions, step) ==
    /\ call = NoCall
    /\ StepRuns(incoming, step)
    /\ LET r == SyncWithFault(secrets, userID, incoming, clientVersions, step)
       IN /\ secrets' = r.table
          /\ call' = [op |-> "SyncError", userID |-> userID,
                      incoming |-> incoming, versions |-> clientVersions,
                      before |-> secrets, step |-> step, result |-> r.result]
    /\ UNCHANGED <<tx, httpVars, jan, cacheVars, clientVars, enr, srv>>

\* the client repeats the request that failed; the store works again
SyncRetry ==
    /\ call # NoCall
    /\ call.op = "SyncError"
    /\ LET r == SyncResult(secrets, call.userID, call.incoming, call.versions)
       IN /\ secrets' = r.table
          /\ call' = [op |-> "SyncRetry", userID |-> call.userID,
                      incoming |-> call.incoming, versions |-> call.versions,
                      before |-> call.before, step |-> call.step,
                      partial |-> secrets,
                      version |-> r.version, updated |-> r.updated,
                      skipped |-> r.skipped, secrets |-> r.secrets]
    /\ UNCHANGED <<tx, httpVars, jan, cacheVars, clientVars, enr, srv>>

\* ------------------------------------------------------------- the cleaner

\* one tick of StartSoftDeleteCleaner, time.Now().Unix() reading t:
\* DELETE FROM secrets WHERE deleted = true AND version < cutoff.
\* The statement is serialised by the database before or after a request
\* that is being handled; it is taken between requests.
CleanerPass(t) ==
    /\ call = NoCall
    /\ LET cutoff == t - Retention
           keep == {id \in DOMAIN secrets :
                        ~(secrets[id].deleted /\ secrets[id].version < cutoff)}
       IN secrets' = [id \in keep |-> secrets[id]]
    /\ UNCHANGED <<call, tx, httpVars, jan, cacheVars, clientVars, enr, srv>>

\* ------------------------------------ UpsertIfNewer, statement by statement

\* Two requests whose UpsertIfNewer calls overlap.  BeginTx(ctx, nil) opens a
\* transaction at the database's default isolation, READ COMMITTED: every
\* statement reads the committed rows and the transaction's own writes, a
\* written row stays locked until the transaction ends, and ON CONFLICT DO
\* UPDATE acts on the row as last committed.
Txs == {"t1", "t2"}

IdleTx == [pc |-> "idle"]

\* what a statement of transaction x reads
View(x) ==
    LET w == tx[x].writes
    IN [id \in DOMAIN secrets \cup DOMAIN w |->
            IF id \in DOMAIN w THEN w[id] ELSE secrets[id]]

\* where the loop goes after the secret at index i
AfterSecret(x) == IF tx[x].i + 1 > Len(tx[x].secs) THEN "commit" ELSE "select"

\* tx, err := s.DB.BeginTx(ctx, nil)
TxBegin(x, userID, secs) ==
    /\ tx[x].pc = "idle"
    /\ tx' = [tx EXCEPT ![x] = [pc |-> "select", userID |-> userID, secs |-> secs,
                                 i |-> 1, writes |-> <<>>,
                                 updated |-> <<>>, skipped |-> <<>>]]
    /\ UNCHANGED <<secrets, call, httpVars, jan, cacheVars, clientVars, enr, srv>>

\* the SELECT version of the loop body and the comparison that follows it
TxSelect(x) ==
    /\ tx[x].pc = "select"
    /\ LET sec == tx[x].secs[tx[x].i]
           existing == SelectVersion(View(x), tx[x].userID, sec.id)
       IN IF existing.found /\ existing.version >= sec.version
          THEN tx' = [tx EXCEPT ![x].skipped = Append(@, sec.id),
                                ![x].i = @ + 1,
                                ![x].pc = AfterSecret(x)]
          ELSE tx' = [tx EXCEPT ![x].pc = "exec"]
    /\ UNCHANGED <<secrets, call, httpVars, jan, cacheVars, clientVars, enr, srv>>

\* the INSERT ... ON CONFLICT of the loop body; it waits while another
\* transaction holds the row
TxExec(x) ==
    /\ tx[x].pc = "exec"
    /\ LET sec == tx[x].secs[tx[x].i]
           w == tx[x].writes
           v == ExecUpsert(View(x), tx[x].userID, sec)
       IN /\ \A y \in Txs \ {x} :
                tx[y].pc \in {"select", "exec", "commit"} => sec.id \notin DOMAIN tx[y].writes
          /\ tx' = [tx EXCEPT ![x].writes = [id \in DOMAIN w \cup {sec.id} |-> v[id]],
                               ![x].updated = Append(@, sec.id),
                               ![x].i = @ + 1,
                               ![x].pc = AfterSecret(x)]
    /\ UNCHANGED <<secrets, call, httpVars, jan, cacheVars, clientVars, enr, srv>>

\* tx.Commit()
TxCommit(x) ==
    /\ tx[x].pc = "commit"
    /\ secrets' = View(x)
    /\ tx' = [tx EXCEPT ![x].pc = "done", ![x].writes = <<>>]
    /\ UNCHANGED <<call, httpVars, jan, cacheVars, clientVars, enr, srv>>

\* ------------------------------------------------------------ the HTTP server

\* an x509 certificate as the server reads it: Subject.CommonName, the
\* signer, ExtKeyUsage and IsCA

\* certgen.GenerateUserCertificate(commonName, caCert, caKey), used by Register
GenerateUserCertificate(commonName) ==
    [cn |-> commonName, issuer |-> "GophKeeper CA",
     extKeyUsage |-> {"ClientAuth"}, isCA |-> FALSE]

\* generateCert(cn, ca, caKey) of tools/certgen
generateCert(cn) ==
    [cn |-> cn, issuer |-> "GophKeeper CA",
     extKeyUsage |-> {"ClientAuth", "ServerAuth"}, isCA |-> FALSE]

\* certs/client.crt, written by tools/certgen for "alice"
ToolCerts == {generateCert("alice")}

\* r.URL.Path
Paths == {"/api/register", "/api/login", "/api/sync", "/api/data"}

\* r.TLS.PeerCertificates: the chains a client can present are made of
\* certificates the CA has signed (ClientAuth: tls.VerifyClientCertIfGiven)
Chains(cs) ==
    {<<>>} \cup {<<c>> : c \in cs}
        \cup {q \in {<<c, d>> : c, d \in cs} : q[1] # q[2]}

\* the secrets of the request bodies of this specification
ServedBatches ==
    {<<>>} \cup {<<s>> : s \in {x \in Submitted : x.id = "s1" /\ x.data = "d1"}}

\* a request body: valid is FALSE for a body that is not JSON; login is the
\* field "login" (the empty string when the body has none)
Bodies ==
    [valid : {TRUE}, login : Owners \cup {""}, secrets : ServedBatches,
     versions : KnownMaps(0)]
        \cup {[valid |-> FALSE, login |-> "", secrets |-> <<>>, versions |-> <<>>]}

\* tls is FALSE when r.TLS == nil
HTTPRequests(cs) ==
    [path : Paths, tls : {FALSE}, certs : {<<>>}, body : Bodies]
        \cup [path : Paths, tls : {TRUE}, certs : Chains(cs), body : Bodies]

NoRequest == [handler |-> "idle"]

\* CertAuth with the CommonName taken from the last peer certificate
CertAuth_LastCertificate(r) ==
    IF r.path = "/api/register"
    THEN [next |-> TRUE, user |-> ""]
    ELSE IF ~r.tls \/ Len(r.certs) = 0
         THEN [next |-> FALSE, user |-> ""]
         ELSE [next |-> TRUE, user |-> r.certs[Len(r.certs)].cn]

\* CertAuth that asks for a certificate on every path
CertAuth_NoBypass(r) ==
    IF ~r.tls \/ Len(r.certs) = 0
    THEN [next |-> FALSE, user |-> ""]
    ELSE [next |-> TRUE, user |-> r.certs[1].cn]

\* middleware.CertAuth: next is TRUE when next.ServeHTTP is called, user is
\* what GetUserIDFromContext returns downstream
CertAuth(r) ==
    IF r.path = "/api/register"
    THEN [next |-> TRUE, user |-> ""]
    ELSE IF ~r.tls \/ Len(r.certs) = 0
         THEN [next |-> FALSE, user |-> ""]
         ELSE [next |-> TRUE, user |-> r.certs[1].cn]

\* SELECT EXISTS(SELECT 1 FROM users WHERE login = $1)
UserExists(us, login) == login \in us

\* INSERT INTO users (login) VALUES ($1); a duplicate key is not an error
RegisterUser(us, login) == us \cup {login}

\* what a served request leaves in `served`
Served(r, gate, handler, status, fault) ==
    [req |-> r, next |-> gate.next, user |-> gate.user, handler |-> handler,
     status |-> status, fault |-> fault, cert |-> {}, service |-> {},
     usersBefore |-> users, before |-> secrets]

\* CertAuth answers 401: http.Error and return
Unauthorized(r) ==
    /\ served = NoRequest
    /\ ~CertAuth(r).next
    /\ served' = Served(r, CertAuth(r), "none", 401, "none")
    /\ UNCHANGED <<dbVars, users, issued, jan, cacheVars, clientVars, enr, srv>>

\* the steps of AuthHandler.Register that can fail
RegisterFaults ==
    {"none", "UserExists", "LoadCACredentials", "GenerateUserCertificate",
     "RegisterUser"}

\* Register answering login ok when the login is taken
RegisterAnswer_TakenIsOK(r, fault) ==
    IF ~r.body.valid \/ r.body.login = "" THEN 400
    ELSE IF fault = "UserExists" THEN 500
    ELSE IF fault \in {"LoadCACredentials", "GenerateUserCertificate", "RegisterUser"}
         THEN 500
    ELSE 200

\* Register that answers 200 although the CA or the leaf could not be had
RegisterAnswer_IgnoresCertErrors(r, fault) ==
    IF ~r.body.valid \/ r.body.login = "" THEN 400
    ELSE IF fault = "UserExists" THEN 500
    ELSE IF UserExists(users, r.body.login) THEN 409
    ELSE IF fault = "RegisterUser" THEN 500
    ELSE 200

\* the status code AuthHandler.Register answers with
RegisterAnswer(r, fault) ==
    IF ~r.body.valid \/ r.body.login = "" THEN 400
    ELSE IF fault = "UserExists" THEN 500
    ELSE IF UserExists(users, r.body.login) THEN 409
    ELSE IF fault \in {"LoadCACredentials", "GenerateUserCertificate", "RegisterUser"}
         THEN 500
    ELSE 200

\* Register issuing for a fixed CommonName
IssueFor_Fixed(login) == GenerateUserCertificate("alice")

\* the certificate Register generates for login
IssueFor(login) == GenerateUserCertificate(login)

\* POST /api/register: CertAuth lets it through, AuthHandler.Register
Register(r, fault) ==
    /\ served = NoRequest
    /\ CertAuth(r).next
    /\ r.path = "/api/register"
    /\ LET status == RegisterAnswer(r, fault)
           rec == Served(r, CertAuth(r), "Register", status, fault)
       IN IF status = 200
          THEN /\ users' = RegisterUser(users, r.body.login)
               /\ issued' = issued \cup {IssueFor(r.body.login)}
               /\ served' = [rec EXCEPT !.cert = {IssueFor(r.body.login)}]
          ELSE /\ served' = rec
               /\ UNCHANGED <<users, issued, clientVars>>
    /\ UNCHANGED <<dbVars, jan, cacheVars, clientVars, enr, srv>>

\* POST /api/login: AuthHandler.Login
Login(r, fault) ==
    /\ served = NoRequest
    /\ CertAuth(r).next
    /\ r.path = "/api/login"
    /\ fault \in {"none", "UserExists"}
    /\ LET login == r.certs[1].cn
           status == IF fault = "UserExists" THEN 500
                     ELSE IF ~UserExists(users, login) THEN 403 ELSE 200
       IN served' = Served(r, CertAuth(r), "Login", status, fault)
    /\ UNCHANGED <<dbVars, users, issued, jan, cacheVars, clientVars, enr, srv>>

\* secrets.user_login REFERENCES users(login): the INSERT of UpsertIfNewer
\* fails for an owner who has no row in users, and the transaction is rolled
\* back.  Such an owner has no row in secrets, so the loop reaches the INSERT
\* for every secret and fails at the first id that has no row.
InsertFails(t, us, userID, incoming) ==
    /\ userID \notin us
    /\ \E i \in DOMAIN incoming :
          ~incoming[i].deleted /\ incoming[i].id \notin DOMAIN t

\* POST /api/sync: SyncHandler.Sync with the userID of the request context
ServeSync(r) ==
    /\ served = NoRequest
    /\ CertAuth(r).next
    /\ r.path = "/api/sync"
    /\ LET userID == CertAuth(r).user
           rec == Served(r, CertAuth(r), "Sync", 200, "none")
           res == SyncResult(secrets, userID, r.body.secrets, r.body.versions)
       IN IF ~r.body.valid
          THEN /\ served' = [rec EXCEPT !.status = 400]
               /\ UNCHANGED secrets
          ELSE IF InsertFails(secrets, users, userID, r.body.secrets)
          THEN /\ served' = [rec EXCEPT !.status = 500,
                                        !.service = {[userID |-> userID, err |-> TRUE]}]
               /\ UNCHANGED secrets
          ELSE /\ served' = [rec EXCEPT !.service =
                                {[userID |-> userID, err |-> FALSE,
                                  version |-> res.version, updated |-> res.updated,
                                  skipped |-> res.skipped, secrets |-> res.secrets]}]
               /\ secrets' = res.table
    /\ UNCHANGED <<call, tx, users, issued, jan, cacheVars, clientVars, enr, srv>>

\* any other path: CertAuth lets it through and the router answers 404
NotFound(r) ==
    /\ served = NoRequest
    /\ CertAuth(r).next
    /\ r.path \notin {"/api/register", "/api/login", "/api/sync"}
    /\ served' = Served(r, CertAuth(r), "router", 404, "none")
    /\ UNCHANGED <<dbVars, users, issued, jan, cacheVars, clientVars, enr, srv>>

\* the response has been written
Reply ==
    /\ served # NoRequest
    /\ served' = NoRequest
    /\ UNCHANGED <<dbVars, users, issued, jan, cacheVars, clientVars, enr, srv>>

\* --------------------------------- AuthHandler.Register, statement by statement

\* Enrollment requests handled at the same time: net/http runs every request
\* in a goroutine of its own, and Register takes no lock.  enr.req[h].pc is
\* where handler h is: "idle", "issue" (UserExists has answered false),
\* "insert" (the leaf has been generated), "respond" (RegisterUser has
\* returned nil).  enr.sent[login] counts the responses that carried a
\* certificate for login.
Handlers == {"h1", "h2"}

\* the responses with a certificate that are followed
MaxEnroll == 3

IdleHandler == [pc |-> "idle"]

EnrollStart == [req |-> [h \in Handlers |-> IdleHandler],
                sent |-> [login \in Owners |-> 0]]

\* the certificates sent so far
Sent(e) == e.sent["alice"] + e.sent["bob"]

\* Register up to the answer of UserExists: 409 and return when the login is
\* in users, on to the certificate otherwise
EnrollCheck(h, login) ==
    /\ enr.req[h].pc = "idle"
    /\ Sent(enr) < MaxEnroll
    /\ enr' = [enr EXCEPT !.req[h] =
                  IF UserExists(users, login)
                  THEN IdleHandler
                  ELSE [pc |-> "issue", login |-> login]]
    /\ UNCHANGED <<dbVars, httpVars, jan, cacheVars, clientVars, srv>>

\* LoadCACredentials and GenerateUserCertificate
EnrollIssue(h) ==
    /\ enr.req[h].pc = "issue"
    /\ enr' = [enr EXCEPT !.req[h] =
                  [pc |-> "insert", login |-> enr.req[h].login,
                   cert |-> IssueFor(enr.req[h].login)]]
    /\ UNCHANGED <<dbVars, httpVars, jan, cacheVars, clientVars, srv>>

\* AuthService.RegisterUser: the INSERT; a duplicate key returns nil
EnrollInsert(h) ==
    /\ enr.req[h].pc = "insert"
    /\ users' = RegisterUser(users, enr.req[h].login)
    /\ enr' = [enr EXCEPT !.req[h].pc = "respond"]
    /\ UNCHANGED <<dbVars, issued, served, jan, cacheVars, clientVars, srv>>

\* the response with cert and key is written, the handler returns
EnrollRespond(h) ==
    /\ enr.req[h].pc = "respond"
    /\ issued' = issued \cup {enr.req[h].cert}
    /\ enr' = [enr EXCEPT !.req[h] = IdleHandler,
                          !.sent[enr.req[h].login] = @ + 1]
    /\ UNCHANGED <<dbVars, users, served, jan, cacheVars, clientVars, srv>>

\* ------------------------------------------- StartSoftDeleteCleaner, step by step

\* The goroutine started by StartSoftDeleteCleaner.  jan.pc is where it is:
\* "select" (waiting in the select), "pass" (case <-ticker.C taken, the body
\* not run yet), "ran" (the body has run; jan.last tells what it did) and
\* "exited".  jan.pending says that a tick waits in ticker.C, jan.cancelled
\* that ctx.Done() is closed.  History kept for the properties: received (a
\* tick has been received), early (ctx was cancelled before the first tick
\* was received), touched (a DELETE of the cleaner has been executed by the
\* database) and log (the messages written).
NoPass == [ran |-> FALSE]

LogFailed == "failed to clean soft-deleted secrets"
LogCleaned == "cleaned soft-deleted secrets"

JanitorStart ==
    [pc |-> "select", ticker |-> "running", pending |-> FALSE,
     cancelled |-> FALSE, received |-> FALSE, early |-> FALSE,
     touched |-> FALSE, log |-> {}, last |-> NoPass]

\* the DELETE with "version <= $1"
CleanSoftDeleted_Inclusive(t, cutoff) ==
    LET keep == {id \in DOMAIN t : ~(t[id].deleted /\ t[id].version <= cutoff)}
    IN [id \in keep |-> t[id]]

\* DELETE FROM secrets WHERE deleted = true AND version < $1
CleanSoftDeleted(t, cutoff) ==
    LET keep == {id \in DOMAIN t : ~(t[id].deleted /\ t[id].version < cutoff)}
    IN [id \in keep |-> t[id]]

\* the loop leaving on a failed pass
AfterFailure_Return == "exited"

\* where the loop goes after log.Error: continue
AfterFailure == "select"

\* the goroutine returning without the deferred ticker.Stop()
TickerAfterReturn_Running == "running"

\* defer ticker.Stop()
TickerAfterReturn == "stopped"

\* the ticker sends on ticker.C (a channel of capacity 1; a tick that finds
\* the channel full is dropped)
Tick ==
    /\ jan.ticker = "running"
    /\ ~jan.pending
    /\ jan' = [jan EXCEPT !.pending = TRUE]
    /\ UNCHANGED <<dbVars, httpVars, cacheVars, clientVars, enr, srv>>

\* the owner of ctx cancels it
Cancel ==
    /\ ~jan.cancelled
    /\ jan' = [jan EXCEPT !.cancelled = TRUE, !.early = ~jan.received]
    /\ UNCHANGED <<dbVars, httpVars, cacheVars, clientVars, enr, srv>>

\* select takes case <-ticker.C (also when ctx.Done() is ready: select
\* chooses among the ready cases)
ReceiveTick ==
    /\ jan.pc = "select"
    /\ jan.pending
    /\ jan' = [jan EXCEPT !.pc = "pass", !.pending = FALSE, !.received = TRUE]
    /\ UNCHANGED <<dbVars, httpVars, cacheVars, clientVars, enr, srv>>

\* select takes case <-ctx.Done(): return, and the deferred ticker.Stop()
Exit ==
    /\ jan.pc = "select"
    /\ jan.cancelled
    /\ jan' = [jan EXCEPT !.pc = "exited", !.ticker = TickerAfterReturn]
    /\ UNCHANGED <<dbVars, httpVars, cacheVars, clientVars, enr, srv>>

\* the body of case <-ticker.C with time.Now().Unix() reading t.
\* db.ExecContext returns ctx.Err() without running the statement when ctx is
\* done; fails says that the statement fails for another reason.
RunPass(t, fails) ==
    /\ jan.pc = "pass"
    /\ LET cutoff == t - Retention
           err == jan.cancelled \/ fails
           after == IF err THEN secrets ELSE CleanSoftDeleted(secrets, cutoff)
           msgs == IF err THEN {LogFailed}
                   ELSE IF DOMAIN after # DOMAIN secrets THEN {LogCleaned} ELSE {}
       IN /\ secrets' = after
          /\ jan' = [jan EXCEPT !.pc = "ran",
                                !.touched = @ \/ ~err,
                                !.log = @ \cup msgs,
                                !.last = [ran |-> TRUE, t |-> t, err |-> err,
                                          cancelled |-> jan.cancelled,
                                          before |-> secrets, after |-> after]]
    /\ UNCHANGED <<call, tx, httpVars, cacheVars, clientVars, enr, srv>>

\* the end of the loop body: back to the select
Continue ==
    /\ jan.pc = "ran"
    /\ jan' = [jan EXCEPT !.pc = IF jan.last.err THEN AfterFailure ELSE "select",
                          !.last = NoPass]
    /\ UNCHANGED <<dbVars, httpVars, cacheVars, clientVars, enr, srv>>

\* the requests handled while the cleaner runs
JanitorBatches == {<<s>> : s \in {x \in Submitted : x.data = "d1"}}

\* a Sync of alice handled and answered between two steps of the cleaner
Handle(incoming) ==
    /\ secrets' = SyncResult(secrets, "alice", incoming, <<>>).table
    /\ UNCHANGED <<call, tx, httpVars, jan, cacheVars, clientVars, enr, srv>>

\* ------------------------------------------- tombstones and the cleaner's clock

\* The server's clock srv.now, in the unit of Retention, read by the cleaner
\* as time.Now().  srv.at[id] is the time at which the row of id went from
\* live to deleted, srv.last the tombstones the pass just run has removed,
\* each with the time it was made.
ServerStart == [now |-> 0, at |-> <<>>, last |-> {}]

\* the time at which each tombstone of table t1 was made, t0 being the table
\* before the step taken at time t
TombstonedAt(at, t0, t1, t) ==
    [id \in {i \in DOMAIN t1 : t1[i].deleted} |->
        IF id \in DOMAIN t0 /\ t0[id].deleted /\ id \in DOMAIN at
        THEN at[id] ELSE t]

\* time passes
ClockTick ==
    /\ srv.now < MaxTime
    /\ srv' = [srv EXCEPT !.now = @ + 1, !.last = {}]
    /\ UNCHANGED <<dbVars, httpVars, jan, cacheVars, clientVars, enr>>

\* a Sync of alice handled at srv.now.  The version of a secret is the
\* client's time.Now().Unix() when the secret was entered (PromptForSecret):
\* it is not later than the time the server receives it.
TimedSync(incoming) ==
    /\ \A i \in DOMAIN incoming : incoming[i].version <= srv.now
    /\ LET after == SyncResult(secrets, "alice", incoming, <<>>).table
       IN /\ secrets' = after
          /\ srv' = [srv EXCEPT !.at = TombstonedAt(srv.at, secrets, after, srv.now),
                                !.last = {}]
    /\ UNCHANGED <<call, tx, httpVars, jan, cacheVars, clientVars, enr>>

\* a pass of the cleaner at srv.now: cutoff = time.Now().Add(-retention).Unix()
TimedPass ==
    /\ srv.now >= 1
    /\ LET after == CleanSoftDeleted(secrets, srv.now - Retention)
       IN /\ secrets' = after
          /\ srv' = [srv EXCEPT
                       !.at = [id \in DOMAIN srv.at \cap DOMAIN after |-> srv.at[id]],
                       !.last = {[id |-> id, at |-> srv.at[id],
                                  version |-> secrets[id].version] :
                                    id \in DOMAIN secrets \ DOMAIN after}]
    /\ UNCHANGED <<call, tx, httpVars, jan, cacheVars, clientVars, enr>>

\* ------------------------------------------------------ the client's cache

\* the client's clock stops at MaxClock
MaxClock == 2

\* LocalStorage after Load on a machine with no storage.json
EmptyStorage == [Secrets |-> <<>>, Version |-> 0, deleted |-> {}]

NoFile == [exists |-> FALSE]

NoCmd == [op |-> "none"]

\* no payload is on its way
NoBox == [pc |-> "none"]

\* no SyncWithServer call has just returned; failed says that the last call
\* of the loop returned an error.  While a call is waiting for client.Post,
\* payload is what it has taken from the cache to send.
NoSync == [ran |-> FALSE, failed |-> FALSE]

SyncFailed == [ran |-> FALSE, failed |-> TRUE]

\* the index of the first element of Secrets the loop of a method stops at
FirstIndex(secs, matches) ==
    IF matches = {} THEN 0 ELSE CHOOSE i \in matches : \A j \in matches : i <= j

\* LocalStorage.Add
Add(l, sec) ==
    [l EXCEPT !.Secrets = Append(@, sec), !.Version = sec.version]

\* LocalStorage.Get: the set holding the secret returned, empty for nil
Get(l, id) ==
    LET i == FirstIndex(l.Secrets,
                 {j \in DOMAIN l.Secrets :
                    /\ l.Secrets[j].id = id
                    /\ ~l.Secrets[j].deleted
                    /\ id \notin l.deleted})
    IN IF i = 0 THEN {} ELSE {l.Secrets[i]}

\* Delete that removes the record from Secrets
Delete_Removes(l, id, t) ==
    LET i == FirstIndex(l.Secrets,
                 {j \in DOMAIN l.Secrets :
                    l.Secrets[j].id = id /\ ~l.Secrets[j].deleted})
    IN IF i = 0 THEN [ls |-> l, ok |-> FALSE]
       ELSE [ls |-> [l EXCEPT !.Secrets =
                        SubSeq(l.Secrets, 1, i - 1)
                            \o SubSeq(l.Secrets, i + 1, Len(l.Secrets))],
             ok |-> TRUE]

\* LocalStorage.Delete at time.Now().Unix() = t
Delete(l, id, t) ==
    LET i == FirstIndex(l.Secrets,
                 {j \in DOMAIN l.Secrets :
                    l.Secrets[j].id = id /\ ~l.Secrets[j].deleted})
    IN IF i = 0 THEN [ls |-> l, ok |-> FALSE]
       ELSE [ls |-> [l EXCEPT !.Secrets[i].deleted = TRUE,
                              !.Secrets[i].version = t,
                              !.deleted = @ \cup {id}],
             ok |-> TRUE]

\* Edit that takes the first record with the id, tombstone or not
Edit_AnyRecord(l, id, data, t) ==
    LET i == FirstIndex(l.Secrets, {j \in DOMAIN l.Secrets : l.Secrets[j].id = id})
    IN IF i = 0 THEN [ls |-> l, ok |-> FALSE]
       ELSE [ls |-> [l EXCEPT !.Secrets[i].data = data,
                              !.Secrets[i].version = t],
             ok |-> TRUE]

\* LocalStorage.Edit at time.Now().Unix() = t; data stands for the sealed
\* payload and the comment
Edit(l, id, data, t) ==
    LET i == FirstIndex(l.Secrets,
                 {j \in DOMAIN l.Secrets :
                    /\ l.Secrets[j].id = id
                    /\ ~l.Secrets[j].deleted
                    /\ id \notin l.deleted})
    IN IF i = 0 THEN [ls |-> l, ok |-> FALSE]
       ELSE [ls |-> [l EXCEPT !.Secrets[i].data = data,
                              !.Secrets[i].version = t],
             ok |-> TRUE]

\* a Secret as encoding/json writes it: `json:"deleted,omitempty"` leaves the
\* member out when the flag is false
EncodeSecret(sec) ==
    IF sec.deleted
    THEN [id |-> sec.id, data |-> sec.data, version |-> sec.version, deleted |-> TRUE]
    ELSE [id |-> sec.id, data |-> sec.data, version |-> sec.version]

\* a Secret decoded into a zero value: a member that is absent keeps the zero
DecodeSecret(j) ==
    [id |-> j.id, data |-> j.data, version |-> j.version,
     deleted |-> IF "deleted" \in DOMAIN j THEN j.deleted ELSE FALSE]

\* LocalStorage.Save: what json.NewEncoder(f).Encode(ls) writes; the
\* unexported fields mu and deleted are not written
Save(l) ==
    [exists |-> TRUE,
     secrets |-> [i \in DOMAIN l.Secrets |-> EncodeSecret(l.Secrets[i])],
     version |-> l.Version]

\* the ids of the records that carry the Deleted flag
FlaggedIds(secs) == {secs[i].id : i \in {j \in DOMAIN secs : secs[j].deleted}}

\* Load that decodes the file and builds no index
Load_NoIndex(f) ==
    IF ~f.exists THEN EmptyStorage
    ELSE [Secrets |-> [i \in DOMAIN f.secrets |-> DecodeSecret(f.secrets[i])],
          Version |-> f.version,
          deleted |-> {}]

\* LocalStorage.Load into a new LocalStorage
Load(f) ==
    IF ~f.exists THEN EmptyStorage
    ELSE LET secs == [i \in DOMAIN f.secrets |-> DecodeSecret(f.secrets[i])]
         IN [Secrets |-> secs, Version |-> f.version, deleted |-> FlaggedIds(secs)]

\* the readings of time.Now().Unix() that can follow the reading now
Readings == {t \in 1..MaxClock : t >= now}

\* what a shell command leaves in `ret`
Ran(op, id, ok, got) ==
    [op |-> op, id |-> id, ok |-> ok, got |-> got, before |-> ls]

\* shell command add: PromptForSecret (a new uuid, Version = now), Add, Save
ShellAdd(id, data, t) ==
    /\ ret = NoCmd
    /\ ~sy.ran
    /\ id \notin seen
    /\ t \in Readings
    /\ LET sec == [id |-> id, data |-> data, version |-> t, deleted |-> FALSE]
       IN /\ ls' = Add(ls, sec)
          /\ file' = Save(Add(ls, sec))
    /\ ret' = Ran("add", id, TRUE, {})
    /\ seen' = seen \cup {id}
    /\ now' = t
    /\ UNCHANGED <<loop, dbVars, httpVars, jan, clientVars, enr, srv>>

\* shell command get <id>
ShellGet(id) ==
    /\ ret = NoCmd
    /\ ~sy.ran
    /\ ret' = Ran("get", id, Get(ls, id) # {}, Get(ls, id))
    /\ UNCHANGED <<ls, file, loop, seen, now, dbVars, httpVars, jan, clientVars,
                 enr, srv>>

\* shell command delete <id>: Delete, and Save when it returned true
ShellDelete(id, t) ==
    /\ ret = NoCmd
    /\ ~sy.ran
    /\ t \in Readings
    /\ LET r == Delete(ls, id, t)
       IN /\ ls' = r.ls
          /\ file' = IF r.ok THEN Save(r.ls) ELSE file
          /\ ret' = Ran("delete", id, r.ok, {})
    /\ now' = t
    /\ UNCHANGED <<loop, seen, dbVars, httpVars, jan, clientVars, enr, srv>>

\* shell command edit <id>: PromptEditSecret, Edit, and Save when it returned true
ShellEdit(id, data, t) ==
    /\ ret = NoCmd
    /\ ~sy.ran
    /\ t \in Readings
    /\ LET r == Edit(ls, id, data, t)
       IN /\ ls' = r.ls
          /\ file' = IF r.ok THEN Save(r.ls) ELSE file
          /\ ret' = Ran("edit", id, r.ok, {})
    /\ now' = t
    /\ UNCHANGED <<loop, seen, dbVars, httpVars, jan, clientVars, enr, srv>>

\* the shell prints its prompt again
Prompt ==
    /\ ret # NoCmd
    /\ ret' = NoCmd
    /\ UNCHANGED <<ls, file, loop, seen, now, dbVars, httpVars, jan, clientVars,
                 enr, srv>>

\* the client is stopped and started again: ls := &LocalStorage{}; ls.Load()
Restart ==
    /\ ret = NoCmd
    /\ ~sy.ran
    /\ ls' = Load(file)
    /\ ret' = Ran("load", "", TRUE, {})
    /\ loop' = "sleep"
    /\ sy' = NoSync
    /\ UNCHANGED <<file, seen, now, online, dbVars, httpVars, jan, th, mu, box,
                 enr, srv>>

\* the bodies of the 200 responses to /api/sync: the rows GetNewerSecrets
\* returns are rows with deleted = false, one per id, and version is their
\* highest version
ResponseSecrets ==
    {<<>>} \cup {<<s>> : s \in LiveSecrets}
        \cup {<<s, u>> : s, u \in LiveSecrets}

Responses ==
    {[secrets |-> q,
      version |-> IF q = <<>> THEN 0 ELSE Max({q[i].version : i \in DOMAIN q})] :
        q \in {x \in ResponseSecrets : Len(x) = 2 => x[1].id # x[2].id}}

\* what client.Post and the response give SyncWithServer: a transport
\* error, or a status with a body that decodes into result or does not
Replies ==
    {[kind |-> "transport", status |-> 0, decodes |-> FALSE,
      body |-> [secrets |-> <<>>, version |-> 0]]}
    \cup {[kind |-> "http", status |-> st, decodes |-> FALSE,
           body |-> [secrets |-> <<>>, version |-> 0]] : st \in {200, 500}}
    \cup {[kind |-> "http", status |-> 200, decodes |-> TRUE, body |-> resp] :
             resp \in Responses}
    \cup {[kind |-> "http", status |-> 500, decodes |-> TRUE, body |-> resp] :
             resp \in {x \in Responses : Len(x.secrets) = 1 /\ x.secrets[1].data = "d1"}}

\* SyncWithServer without the check of resp.StatusCode
SyncError_NoStatusCheck(reply) ==
    IF reply.kind = "transport" THEN "sync failed"
    ELSE IF ~reply.decodes THEN "invalid response"
    ELSE "none"

\* the error SyncWithServer returns before it touches the cache, "none" when
\* it goes on
SyncError(reply) ==
    IF reply.kind = "transport" THEN "sync failed"
    ELSE IF reply.status # 200 THEN "server error"
    ELSE IF ~reply.decodes THEN "invalid response"
    ELSE "none"

\* the assignment of the response that leaves ls.Version as it was
ApplyResponse_KeepsVersion(l, resp) == [l EXCEPT !.Secrets = resp.secrets]

\* ls.Secrets = copy of result.Secrets; ls.Version = result.Version
ApplyResponse(l, resp) ==
    [l EXCEPT !.Secrets = resp.secrets, !.Version = resp.version]

\* the loop of StartAutoSync returning after an error
AfterSyncError_Return == "exited"

\* where the loop of StartAutoSync goes after an error: it prints it and sleeps
AfterSyncError == "sleep"

\* the replies the server gives while it is up; every other reply is one it
\* gives, or the network gives for it, while it is not
Healthy(reply) == reply.kind = "http" /\ reply.status = 200 /\ reply.decodes

\* SyncWithServer up to client.Post: the payload is taken under the mutex
SyncSend ==
    /\ ret = NoCmd
    /\ ~sy.ran
    /\ loop = "sleep"
    /\ loop' = "post"
    /\ sy' = [ran |-> FALSE, failed |-> sy.failed,
              payload |-> [secrets |-> ls.Secrets,
                           last_known_version |-> ls.Version]]
    /\ UNCHANGED <<ls, file, ret, seen, now, online, dbVars, httpVars, jan, th, mu,
                 box, enr, srv>>

\* SyncWithServer returning an error: transport error, status other than
\* 200 or a body that does not decode
SyncFail(reply) ==
    /\ ret = NoCmd
    /\ loop = "post"
    /\ online <=> Healthy(reply)
    /\ SyncError(reply) # "none"
    /\ loop' = "done"
    /\ sy' = [ran |-> TRUE, err |-> SyncError(reply), reply |-> reply,
              before |-> ls, file |-> file, retry |-> sy.failed,
              changed |-> Range(ls.Secrets) \ Range(sy.payload.secrets)]
    /\ UNCHANGED <<ls, file, ret, seen, now, online, dbVars, httpVars, jan, th, mu,
                 box, enr, srv>>

\* SyncWithServer after a response it accepts: Secrets and Version are
\* replaced by the response, then Save
SyncApply(reply) ==
    /\ ret = NoCmd
    /\ loop = "post"
    /\ online <=> Healthy(reply)
    /\ SyncError(reply) = "none"
    /\ LET l == ApplyResponse(ls, reply.body)
       IN /\ ls' = l
          /\ file' = Save(l)
    /\ seen' = seen \cup {reply.body.secrets[i].id : i \in DOMAIN reply.body.secrets}
    /\ loop' = "done"
    /\ sy' = [ran |-> TRUE, err |-> "none", reply |-> reply,
              before |-> ls, file |-> file, retry |-> sy.failed,
              changed |-> Range(ls.Secrets) \ Range(sy.payload.secrets)]
    /\ UNCHANGED <<ret, now, online, dbVars, httpVars, jan, th, mu, box, enr, srv>>

\* the loop of StartAutoSync after the call: the error is printed, then
\* time.Sleep
SyncSleep ==
    /\ loop = "done"
    /\ loop' = IF sy.err # "none" THEN AfterSyncError ELSE "sleep"
    /\ sy' = IF sy.err # "none" THEN SyncFailed ELSE NoSync
    /\ UNCHANGED <<ls, file, ret, seen, now, online, dbVars, httpVars, jan, th, mu,
                 box, enr, srv>>

\* the server, or the network to it, fails
ServerDown ==
    /\ online
    /\ online' = FALSE
    /\ UNCHANGED <<cacheVars, sy, dbVars, httpVars, jan, th, mu, box, enr, srv>>

\* the server is reachable again
ServerUp ==
    /\ ~online
    /\ online' = TRUE
    /\ UNCHANGED <<cacheVars, sy, dbVars, httpVars, jan, th, mu, box, enr, srv>>

\* ----------------------------------------------- the payload of a secret

\* the longest plaintext tried
MaxPlain == 3

\* aead.NonceSize() and aead.Overhead() of AES-GCM
NonceSize == 12
Overhead == 16

\* bytes: NUL, a letter, a byte that is not valid UTF-8
ByteSample == {0, 65, 255}

RECURSIVE SeqsUpTo(_, _)
SeqsUpTo(S, n) ==
    IF n = 0 THEN {<<>>}
    ELSE LET shorter == SeqsUpTo(S, n - 1)
         IN shorter \cup {Append(q, b) : q \in {x \in shorter : Len(x) = n - 1}, b \in S}

Plaintexts == SeqsUpTo(ByteSample, MaxPlain)

\* the nonces rand.Read gives: twelve bytes
Nonces == {[i \in 1..NonceSize |-> 0], [i \in 1..NonceSize |-> (i * 37) % 256]}

\* the keys NewAEADFromPEM derives, one per client certificate
Keys == {17, 200}

RECURSIVE SumBytes(_)
SumBytes(bs) == IF bs = <<>> THEN 0 ELSE Head(bs) + SumBytes(Tail(bs))

\* bitwise exclusive or of two bytes
Xor(a, b) ==
    LET bit(x, k) == (x \div (2 ^ k)) % 2
        F[k \in 0..8] ==
            IF k = 8 THEN 0
            ELSE (2 ^ k) * ((bit(a, k) + bit(b, k)) % 2) + F[k + 1]
    IN F[0]

\* the cipher's key stream for a key and a nonce, and the tag over the
\* ciphertext: stand-ins for AES in counter mode and GHASH
KeyStream(key, nonce, i) == (key * 31 + SumBytes(nonce) * 7 + i * 13 + 1) % 256

Tag(key, nonce, ct) ==
    [j \in 1..Overhead |->
        (key + SumBytes(nonce) + j * (SumBytes(ct) + Len(ct) + 1)) % 256]

\* aead.Seal(dst, nonce, plaintext, nil): dst followed by the ciphertext and
\* the tag
Seal(key, dst, nonce, plaintext) ==
    LET ct == [i \in 1..Len(plaintext) |-> Xor(plaintext[i], KeyStream(key, nonce, i))]
    IN dst \o ct \o Tag(key, nonce, ct)

\* aead.Open(nil, nonce, ciphertext, nil)
Open(key, nonce, ciphertext) ==
    IF Len(ciphertext) < Overhead THEN [ok |-> FALSE, plain |-> <<>>]
    ELSE LET n == Len(ciphertext) - Overhead
             ct == SubSeq(ciphertext, 1, n)
             tag == SubSeq(ciphertext, n + 1, Len(ciphertext))
         IN IF tag # Tag(key, nonce, ct) THEN [ok |-> FALSE, plain |-> <<>>]
            ELSE [ok |-> TRUE,
                  plain |-> [i \in 1..n |-> Xor(ct[i], KeyStream(key, nonce, i))]]

\* base64.StdEncoding.EncodeToString: the characters as their indices in the
\* alphabet, 64 for the padding '='
RECURSIVE EncodeToString(_)
EncodeToString(bs) ==
    IF Len(bs) = 0 THEN <<>>
    ELSE IF Len(bs) = 1
    THEN <<bs[1] \div 4, (bs[1] % 4) * 16, 64, 64>>
    ELSE IF Len(bs) = 2
    THEN <<bs[1] \div 4, (bs[1] % 4) * 16 + bs[2] \div 16, (bs[2] % 16) * 4, 64>>
    ELSE <<bs[1] \div 4, (bs[1] % 4) * 16 + bs[2] \div 16,
           (bs[2] % 16) * 4 + bs[3] \div 64, bs[3] % 64>>
         \o EncodeToString(SubSeq(bs, 4, Len(bs)))

\* base64.StdEncoding.DecodeString
RECURSIVE DecodeString(_)
DecodeString(cs) ==
    IF Len(cs) = 0 THEN [ok |-> TRUE, bytes |-> <<>>]
    ELSE IF Len(cs) < 4 THEN [ok |-> FALSE, bytes |-> <<>>]
    ELSE LET a == cs[1]
             b == cs[2]
             c == cs[3]
             d == cs[4]
             last == Len(cs) = 4
             b1 == a * 4 + b \div 16
             b2 == (b % 16) * 16 + c \div 4
             b3 == (c % 4) * 64 + d
         IN IF a = 64 \/ b = 64 THEN [ok |-> FALSE, bytes |-> <<>>]
            ELSE IF c = 64
            THEN IF last /\ d = 64 THEN [ok |-> TRUE, bytes |-> <<b1>>]
                 ELSE [ok |-> FALSE, bytes |-> <<>>]
            ELSE IF d = 64
            THEN IF last THEN [ok |-> TRUE, bytes |-> <<b1, b2>>]
                 ELSE [ok |-> FALSE, bytes |-> <<>>]
            ELSE LET rest == DecodeString(SubSeq(cs, 5, Len(cs)))
                 IN IF rest.ok THEN [ok |-> TRUE, bytes |-> <<b1, b2, b3>> \o rest.bytes]
                    ELSE rest

\* Edit sealing with aead.Seal(nil, nonce, ...): no nonce in front
EditData_NoNonce(key, nonce, newData) ==
    EncodeToString(Seal(key, <<>>, nonce, newData))

\* what Edit stores in Secrets[i].Data: base64 of nonce || ciphertext || tag
EditData(key, nonce, newData) ==
    EncodeToString(Seal(key, nonce, nonce, newData))

\* what List prints for a record that is not a tombstone
ListEntry(key, data) ==
    LET dec == DecodeString(data)
    IN IF ~dec.ok \/ Len(dec.bytes) < NonceSize
       THEN [shown |-> "decode error", text |-> <<>>]
       ELSE LET nonce == SubSeq(dec.bytes, 1, NonceSize)
                opened == Open(key, nonce, SubSeq(dec.bytes, NonceSize + 1, Len(dec.bytes)))
            IN IF ~opened.ok THEN [shown |-> "decryption error", text |-> <<>>]
               ELSE [shown |-> "Data", text |-> opened.plain]

\* Edit(id, newData, newComment, aead) has returned true: rand.Read gave the
\* nonce, Secrets[i].Data holds the sealed payload
EditSeals(key, nonce, newData) ==
    /\ box = NoBox
    /\ box' = [pc |-> "stored", key |-> key, plain |-> newData,
               data |-> EditData(key, nonce, newData)]
    /\ UNCHANGED <<dbVars, httpVars, jan, cacheVars, sy, online, th, mu, enr, srv>>

\* List(aead) prints the record
ListShows(key) ==
    /\ box.pc = "stored"
    /\ box' = [pc |-> "shown", key |-> box.key, plain |-> box.plain,
               data |-> box.data, listKey |-> key,
               out |-> ListEntry(key, box.data)]
    /\ UNCHANGED <<dbVars, httpVars, jan, cacheVars, sy, online, th, mu, enr, srv>>

\* the next payload
NextPayload ==
    /\ box.pc = "shown"
    /\ box' = NoBox
    /\ UNCHANGED <<dbVars, httpVars, jan, cacheVars, sy, online, th, mu, enr, srv>>

\* ------------------------------------- the client's goroutines, by statement

\* the goroutine of repl and the goroutine of StartAutoSync
Threads == {"shell", "sync"}

NoArg == [op |-> "none"]

\* what the encoder of Save has read of ls so far
NoBuf == [Secrets |-> <<>>, Version |-> 0]

IdleThread == [pc |-> "idle", arg |-> NoArg, buf |-> NoBuf]

\* storage.json after os.Create and before the encoder's Write: an empty
\* file.  Load fails to decode it and leaves the zero LocalStorage, which
\* reads as the empty cache.
Truncated == [exists |-> TRUE, secrets |-> <<>>, version |-> 0]

\* the methods of the cache the shell calls; each starts with ls.mu.Lock()
\* and defer ls.mu.Unlock()
Methods == {"add", "get", "edit", "delete", "list"}

\* the shell calls a method of the cache: ls.mu.Lock().  What the user types
\* (PromptForSecret, PromptEditSecret) has been read before the call.
CallLock(op, id, t) ==
    /\ th["shell"].pc = "idle"
    /\ mu = "free"
    /\ op \in Methods
    /\ op = "add" => id \notin seen
    /\ t \in Readings
    /\ mu' = "shell"
    /\ th' = [th EXCEPT !["shell"].pc = "locked",
                        !["shell"].arg = [op |-> op, id |-> id, t |-> t]]
    /\ now' = t
    /\ seen' = IF op = "add" THEN seen \cup {id} ELSE seen
    /\ UNCHANGED <<ls, file, ret, loop, sy, online, box, dbVars, httpVars, jan,
                 enr, srv>>

\* the body of the method and the deferred ls.mu.Unlock(); the shell goes on
\* to ls.Save() after Add and after a Delete or an Edit that returned true
CallReturn ==
    /\ th["shell"].pc = "locked"
    /\ LET a == th["shell"].arg
           r == CASE a.op = "add" ->
                       [ls |-> Add(ls, [id |-> a.id, data |-> "d1", version |-> a.t,
                                        deleted |-> FALSE]),
                        ok |-> TRUE]
                  [] a.op = "delete" -> Delete(ls, a.id, a.t)
                  [] a.op = "edit" -> Edit(ls, a.id, "d1", a.t)
                  [] OTHER -> [ls |-> ls, ok |-> FALSE]
       IN /\ ls' = r.ls
          /\ th' = [th EXCEPT !["shell"].pc = IF r.ok THEN "create" ELSE "idle",
                              !["shell"].arg = NoArg]
    /\ mu' = "free"
    /\ UNCHANGED <<file, ret, loop, seen, now, sy, online, box, dbVars, httpVars,
                 jan, enr, srv>>

\* Save: os.Create(storageFile) truncates the file
SaveCreate(x) ==
    /\ th[x].pc = "create"
    /\ file' = Truncated
    /\ th' = [th EXCEPT ![x].pc = "encode"]
    /\ UNCHANGED <<ls, ret, loop, seen, now, sy, online, mu, box, dbVars, httpVars,
                 jan, enr, srv>>

\* Save: the encoder reads ls.Secrets; Save does not take ls.mu
SaveReadSecrets(x) ==
    /\ th[x].pc = "encode"
    /\ th' = [th EXCEPT ![x].pc = "encoding", ![x].buf.Secrets = ls.Secrets]
    /\ UNCHANGED <<ls, file, ret, loop, seen, now, sy, online, mu, box, dbVars,
                   httpVars, jan, enr, srv>>

\* Save: the encoder reads ls.Version
SaveReadVersion(x) ==
    /\ th[x].pc = "encoding"
    /\ th' = [th EXCEPT ![x].pc = "write", ![x].buf.Version = ls.Version]
    /\ UNCHANGED <<ls, file, ret, loop, seen, now, sy, online, mu, box, dbVars,
                   httpVars, jan, enr, srv>>

\* Save: the encoder writes what it has encoded at the start of the file it
\* created; Save returns
SaveWrite(x) ==
    /\ th[x].pc = "write"
    /\ file' = Save([Secrets |-> th[x].buf.Secrets, Version |-> th[x].buf.Version,
                     deleted |-> {}])
    /\ th' = [th EXCEPT ![x] = IdleThread]
    /\ UNCHANGED <<ls, ret, loop, seen, now, sy, online, mu, box, dbVars, httpVars,
                 jan, enr, srv>>

\* SyncWithServer unlocking only after the response has been assigned
DuringPost_Held == "sync"

\* who holds ls.mu while SyncWithServer is in client.Post: ls.mu.Unlock()
\* comes before json.Marshal and client.Post
DuringPost == "free"

\* SyncWithServer: ls.mu.Lock() before the payload is built
SnapshotLock ==
    /\ th["sync"].pc = "idle"
    /\ mu = "free"
    /\ mu' = "sync"
    /\ th' = [th EXCEPT !["sync"].pc = "snapshot"]
    /\ UNCHANGED <<cacheVars, sy, online, box, dbVars, httpVars, jan, enr, srv>>

\* SyncWithServer: the payload is built, ls.mu.Unlock(), client.Post
SnapshotUnlock ==
    /\ th["sync"].pc = "snapshot"
    /\ mu' = DuringPost
    /\ th' = [th EXCEPT !["sync"].pc = "post"]
    /\ UNCHANGED <<cacheVars, sy, online, box, dbVars, httpVars, jan, enr, srv>>

\* SyncWithServer: client.Post has returned; an error ends the call
PostReturns(reply) ==
    /\ th["sync"].pc = "post"
    /\ th' = IF SyncError(reply) # "none"
             THEN [th EXCEPT !["sync"] = IdleThread]
             ELSE [th EXCEPT !["sync"].pc = "decoded", !["sync"].arg = reply.body]
    /\ UNCHANGED <<cacheVars, sy, online, mu, box, dbVars, httpVars, jan, enr, srv>>

\* SyncWithServer: ls.mu.Lock() before the response is assigned
MergeLock ==
    /\ th["sync"].pc = "decoded"
    /\ mu = "free"
    /\ mu' = "sync"
    /\ th' = [th EXCEPT !["sync"].pc = "locked"]
    /\ UNCHANGED <<cacheVars, sy, online, box, dbVars, httpVars, jan, enr, srv>>

\* SyncWithServer: the response is assigned, ls.mu.Unlock(), then ls.Save()
MergeUnlock ==
    /\ th["sync"].pc = "locked"
    /\ ls' = ApplyResponse(ls, th["sync"].arg)
    /\ seen' = seen \cup {th["sync"].arg.secrets[i].id :
                              i \in DOMAIN th["sync"].arg.secrets}
    /\ mu' = "free"
    /\ th' = [th EXCEPT !["sync"].pc = "create", !["sync"].arg = NoArg]
    /\ UNCHANGED <<file, ret, loop, now, sy, online, box, dbVars, httpVars, jan,
                 enr, srv>>

\* ---------------------------------------------------------- specification

Init ==
    /\ secrets = <<>>
    /\ call = NoCall
    /\ tx = [x \in Txs |-> IdleTx]
    /\ users = {}
    /\ issued = {}
    /\ served = NoRequest
    /\ jan = JanitorStart
    /\ ls = EmptyStorage
    /\ file = NoFile
    /\ ret = NoCmd
    /\ loop = "sleep"
    /\ seen = {}
    /\ now = 0
    /\ sy = NoSync
    /\ online = TRUE
    /\ th = [x \in Threads |-> IdleThread]
    /\ mu = "free"
    /\ box = NoBox
    /\ enr = EnrollStart
    /\ srv = ServerStart

Next ==
    \/ \E userID \in Owners, r \in Requests :
            Sync(userID, r.incoming, r.versions)
    \/ Respond
    \/ \E t \in Times : CleanerPass(t)

Spec == Init /\ [][Next]_vars

\* two overlapping UpsertIfNewer calls, one secret each, on the empty table
RaceBatches == {<<s>> : s \in LiveSecrets}

NextRace ==
    \/ \E x \in Txs, userID \in Owners, secs \in RaceBatches : TxBegin(x, userID, secs)
    \/ \E x \in Txs : TxSelect(x)
    \/ \E x \in Txs : TxExec(x)
    \/ \E x \in Txs : TxCommit(x)

SpecRace == Init /\ [][NextRace]_vars

\* Syncs of which some fail at a repository call and are repeated
\* the requests of these Syncs: the client sends no versions it knows, which
\* no write of Sync reads
FaultRequests == {r \in Requests : r.versions = <<>>}

NextFaults ==
    \/ \E userID \in Owners, r \in FaultRequests :
          Sync(userID, r.incoming, r.versions)
    \/ \E userID \in Owners, r \in FaultRequests, step \in Range(SyncSteps) :
          SyncFails(userID, r.incoming, r.versions, step)
    \/ SyncRetry
    \/ Respond

SpecFaults == Init /\ [][NextFaults]_vars

\* the HTTP server, one request at a time
NextServer ==
    \/ /\ served = NoRequest
       /\ \E r \in HTTPRequests(issued \cup ToolCerts) : Unauthorized(r)
    \/ /\ served = NoRequest
       /\ \E r \in HTTPRequests(issued \cup ToolCerts), fault \in RegisterFaults :
             Register(r, fault)
    \/ /\ served = NoRequest
       /\ \E r \in HTTPRequests(issued \cup ToolCerts), fault \in RegisterFaults :
             Login(r, fault)
    \/ /\ served = NoRequest
       /\ \E r \in HTTPRequests(issued \cup ToolCerts) : ServeSync(r)
    \/ /\ served = NoRequest
       /\ \E r \in HTTPRequests(issued \cup ToolCerts) : NotFound(r)
    \/ Reply

SpecServer == Init /\ [][NextServer]_vars

\* enrollment requests whose handlers run at the same time
NextEnroll ==
    \/ \E h \in Handlers, login \in Owners : EnrollCheck(h, login)
    \/ \E h \in Handlers : EnrollIssue(h)
    \/ \E h \in Handlers : EnrollInsert(h)
    \/ \E h \in Handlers : EnrollRespond(h)

SpecEnroll == Init /\ [][NextEnroll]_vars

\* the cleaner's goroutine next to the requests of one owner
NextJanitor ==
    \/ Tick
    \/ Cancel
    \/ ReceiveTick
    \/ Exit
    \/ \E t \in Times, fails \in BOOLEAN : RunPass(t, fails)
    \/ Continue
    \/ \E incoming \in JanitorBatches : Handle(incoming)

SpecJanitor == Init /\ [][NextJanitor]_vars

\* the cleaner's passes and the Syncs of one owner on one clock
NextRetention ==
    \/ ClockTick
    \/ \E incoming \in JanitorBatches : TimedSync(incoming)
    \/ TimedPass

SpecRetention == Init /\ [][NextRetention]_vars

\* The goroutine is scheduled: a step it can take is taken.  In the select,
\* a case that is ready again and again is chosen in the end.
SpecJanitorLive ==
    /\ Init /\ [][NextJanitor]_vars
    /\ WF_vars(ReceiveTick)
    /\ WF_vars(\E t \in Times, fails \in BOOLEAN : RunPass(t, fails))
    /\ WF_vars(Continue)
    /\ SF_vars(Exit)

\* the client: the shell and the sync loop on one cache
NextCache ==
    \/ \E id \in IDs, data \in Data, t \in 1..MaxClock : ShellAdd(id, data, t)
    \/ \E id \in IDs : ShellGet(id)
    \/ \E id \in IDs, t \in 1..MaxClock : ShellDelete(id, t)
    \/ \E id \in IDs, data \in Data, t \in 1..MaxClock : ShellEdit(id, data, t)
    \/ Prompt
    \/ Restart
    \/ SyncSend
    \/ \E reply \in Replies : SyncFail(reply)
    \/ \E reply \in Replies : SyncApply(reply)
    \/ SyncSleep
    \/ ServerDown
    \/ ServerUp

SpecCache == Init /\ [][NextCache]_vars

\* a payload sealed by Edit and shown by List
NextEditList ==
    \/ \E key \in Keys, nonce \in Nonces, newData \in Plaintexts :
            EditSeals(key, nonce, newData)
    \/ \E key \in Keys : ListShows(key)
    \/ NextPayload

SpecEditList == Init /\ [][NextEditList]_vars

\* the replies whose secrets carry the payload d1
LoopReplies ==
    {r \in Replies : \A i \in DOMAIN r.body.secrets : r.body.secrets[i].data = "d1"}

\* the shell and the sync loop as two goroutines on one cache and one file
NextGoroutines ==
    \/ \E op \in Methods, id \in IDs, t \in 1..MaxClock : CallLock(op, id, t)
    \/ CallReturn
    \/ \E x \in Threads : SaveCreate(x)
    \/ \E x \in Threads : SaveReadSecrets(x)
    \/ \E x \in Threads : SaveReadVersion(x)
    \/ \E x \in Threads : SaveWrite(x)
    \/ SnapshotLock
    \/ SnapshotUnlock
    \/ \E reply \in LoopReplies : PostReturns(reply)
    \/ MergeLock
    \/ MergeUnlock

SpecGoroutines == Init /\ [][NextGoroutines]_vars

\* the replies followed where only the mutex matters: a transport error, and
\* the 200 responses with no secret or with the secret s1 at version 1
LockReplies ==
    {r \in LoopReplies :
        \/ r.kind = "transport"
        \/ /\ Healthy(r)
           /\ \A i \in DOMAIN r.body.secrets :
                 r.body.secrets[i].id = "s1" /\ r.body.secrets[i].version = 1}

\* the two goroutines at one reading of the clock
NextLocks ==
    \/ \E op \in Methods, id \in IDs : CallLock(op, id, 1)
    \/ CallReturn
    \/ \E x \in Threads : SaveCreate(x)
    \/ \E x \in Threads : SaveReadSecrets(x)
    \/ \E x \in Threads : SaveReadVersion(x)
    \/ \E x \in Threads : SaveWrite(x)
    \/ SnapshotLock
    \/ SnapshotUnlock
    \/ \E reply \in LockReplies : PostReturns(reply)
    \/ MergeLock
    \/ MergeUnlock

\* A goroutine that holds ls.mu is running code with no wait in it: it
\* reaches its Unlock.  sync.Mutex hands the lock to a goroutine that has
\* waited long enough (starvation mode), so a Lock that can succeed again and
\* again succeeds.  The user may never type a command, and the server may
\* never answer within the life of the run considered.
SpecLocks ==
    /\ Init /\ [][NextLocks]_vars
    /\ WF_vars(CallReturn)
    /\ WF_vars(SnapshotUnlock)
    /\ WF_vars(MergeUnlock)
    /\ SF_vars(MergeLock)

\* The goroutine of StartAutoSync is scheduled whatever the shell does, and
\* its http.Client has a Timeout, so client.Post returns: a step of the loop
\* that can be taken again and again is taken.  The shell finishes the
\* command it runs.
\* the sync loop next to a shell that adds and deletes
NextSyncLoop ==
    \/ \E id \in IDs, t \in 1..MaxClock : ShellAdd(id, "d1", t)
    \/ \E id \in IDs, t \in 1..MaxClock : ShellDelete(id, t)
    \/ Prompt
    \/ Restart
    \/ SyncSend
    \/ \E reply \in LoopReplies : SyncFail(reply)
    \/ \E reply \in LoopReplies : SyncApply(reply)
    \/ SyncSleep
    \/ ServerDown
    \/ ServerUp

SpecCacheLive ==
    /\ Init /\ [][NextSyncLoop]_vars
    /\ SF_vars(SyncSend)
    /\ SF_vars(\E reply \in LoopReplies : SyncFail(reply))
    /\ SF_vars(\E reply \in LoopReplies : SyncApply(reply))
    /\ WF_vars(SyncSleep)
    /\ WF_vars(Prompt)

\* ------------------------------------------------------------------ claims
\* In a state with call # NoCall the table is as the call left it and
\* call.before is the table the call found.

Handled == call # NoCall

\* the positions of incoming that name id
Mentions(incoming, id) == {i \in DOMAIN incoming : incoming[i].id = id}

\* the row of id belongs to userID in table t
Owns(t, userID, id) == id \in DOMAIN t /\ t[id].user_login = userID

\* the highest version of the rows of userID in t, tombstones included
HighestVersion(t, userID) ==
    LET vs == {t[id].version : id \in {i \in DOMAIN t : t[i].user_login = userID}}
    IN IF vs = {} THEN 0 ELSE Max(vs)

\* a call of Sync whose incoming holds live secrets only is one call of
\* UpsertIfNewer on incoming
UpsertOnly == Handled /\ \A i \in DOMAIN call.incoming : ~call.incoming[i].deleted

\* C1: a call of UpsertIfNewer never lowers the version stored for (owner, id),
\* and a secret whose version is not above the stored one leaves the row
\* as it was and is reported in skipped, not in updated.
C1_UpsertNeverLowers ==
    UpsertOnly =>
        \A i \in DOMAIN call.incoming :
            LET sec == call.incoming[i]
            IN (/\ Mentions(call.incoming, sec.id) = {i}
                /\ Owns(call.before, call.userID, sec.id))
               => /\ Owns(secrets, call.userID, sec.id)
                  /\ secrets[sec.id].version >= call.before[sec.id].version
                  /\ (sec.version <= call.before[sec.id].version
                        => /\ secrets[sec.id] = call.before[sec.id]
                           /\ sec.id \in Range(call.skipped)
                           /\ sec.id \notin Range(call.updated))

\* C2: no Sync of an owner lowers the version stored for one of the owner's
\* secrets, whatever mix of live writes and tombstones it submits.
C2_SyncVersionMonotone ==
    Handled =>
        \A id \in DOMAIN call.before :
            Owns(call.before, call.userID, id)
            => /\ id \in DOMAIN secrets
               /\ secrets[id].version >= call.before[id].version

\* C3: when two UpsertIfNewer calls of one owner race on one id with different
\* versions, the row stored once both have committed carries the higher
\* version and the payload submitted with it.
C3_RaceKeepsHigher ==
    (/\ tx["t1"].pc = "done" /\ tx["t2"].pc = "done"
     /\ tx["t1"].userID = tx["t2"].userID
     /\ tx["t1"].secs[1].id = tx["t2"].secs[1].id
     /\ tx["t1"].secs[1].version # tx["t2"].secs[1].version)
    => LET a == tx["t1"].secs[1]
           b == tx["t2"].secs[1]
           hi == IF a.version > b.version THEN a ELSE b
       IN /\ hi.id \in DOMAIN secrets
          /\ secrets[hi.id].version = hi.version
          /\ secrets[hi.id].data = hi.data

\* C4: a live write for a tombstoned secret with a version not above the
\* stored one is skipped: the row stays as it was, tombstoned.
C4_StaleLiveWriteKeepsTombstone ==
    Handled =>
        \A i \in DOMAIN call.incoming :
            LET sec == call.incoming[i]
            IN (/\ ~sec.deleted
                /\ Mentions(call.incoming, sec.id) = {i}
                /\ Owns(call.before, call.userID, sec.id)
                /\ call.before[sec.id].deleted
                /\ sec.version <= call.before[sec.id].version)
               => /\ sec.id \in DOMAIN secrets
                  /\ secrets[sec.id] = call.before[sec.id]
                  /\ sec.id \in Range(call.skipped)

\* the live writes of incoming for id
LiveMentions(incoming, id) ==
    {i \in Mentions(incoming, id) : ~incoming[i].deleted}

\* position i of the call is a live write, the only one for its id, for a
\* secret of the caller that was tombstoned at a lower version
Resurrects(i) ==
    LET sec == call.incoming[i]
    IN /\ ~sec.deleted
       /\ LiveMentions(call.incoming, sec.id) = {i}
       /\ Owns(call.before, call.userID, sec.id)
       /\ call.before[sec.id].deleted
       /\ sec.version > call.before[sec.id].version

\* C5: a live write for a tombstoned secret with a strictly higher version
\* makes the secret live again with the submitted payload and version, and
\* its id is reported in updated.
C5_NewerLiveWriteResurrects ==
    Handled =>
        \A i \in DOMAIN call.incoming :
            Resurrects(i)
            => LET sec == call.incoming[i]
               IN /\ sec.id \in DOMAIN secrets
                  /\ secrets[sec.id] = [user_login |-> call.userID,
                                        data |-> sec.data,
                                        version |-> sec.version,
                                        deleted |-> FALSE]
                  /\ sec.id \in Range(call.updated)
                  /\ sec.id \notin Range(call.skipped)

\* a Sync has resurrected a tombstoned secret with a new payload
C5_Witness ==
    /\ Handled
    /\ \E i \in DOMAIN call.incoming :
          /\ Resurrects(i)
          /\ call.incoming[i].data # call.before[call.incoming[i].id].data
          /\ ~secrets[call.incoming[i].id].deleted

\* C6: a tombstone whose version is not above the version stored for the
\* secret is rejected: the secret stays live and unchanged.
C6_StaleTombstoneRejected ==
    Handled =>
        \A i \in DOMAIN call.incoming :
            LET sec == call.incoming[i]
            IN (/\ sec.deleted
                /\ Mentions(call.incoming, sec.id) = {i}
                /\ Owns(call.before, call.userID, sec.id)
                /\ ~call.before[sec.id].deleted
                /\ sec.version <= call.before[sec.id].version)
               => /\ sec.id \in DOMAIN secrets
                  /\ secrets[sec.id] = call.before[sec.id]

\* C7: the same Sync handled again right after the first, with no writer in
\* between, reports every id the first call updated in skipped and none of
\* them in updated.
C7_SecondSyncSkips ==
    Handled =>
        LET again == SyncResult(secrets, call.userID, call.incoming, call.versions)
        IN \A id \in Range(call.updated) :
              /\ id \in Range(again.skipped)
              /\ id \notin Range(again.updated)

\* C8: the secrets returned are exactly the rows of the owner, tombstoned or
\* not, whose id the client does not know or knows at a lower version.
C8_NewerThanExact ==
    Handled =>
        call.secrets =
            {[id |-> id, data |-> secrets[id].data,
              version |-> secrets[id].version, deleted |-> secrets[id].deleted] :
                id \in {i \in DOMAIN secrets :
                          /\ secrets[i].user_login = call.userID
                          /\ (i \notin DOMAIN call.versions
                                \/ secrets[i].version > call.versions[i])}}

\* C9: a Sync of a client that knows an older version of a secret which an
\* earlier Sync of the same owner tombstoned, and which is still in the
\* table, returns the secret marked deleted.
C9_TombstonePropagates ==
    Handled =>
        \A id \in DOMAIN call.before :
            (/\ Owns(call.before, call.userID, id)
             /\ call.before[id].deleted
             /\ Mentions(call.incoming, id) = {}
             /\ id \in DOMAIN call.versions
             /\ call.versions[id] < call.before[id].version)
            => \E s \in call.secrets : s.id = id /\ s.deleted

\* C10: the version returned is the highest version of the owner's rows,
\* tombstones included, and 0 when the owner has no row.
C10_MaxVersionCountsTombstones ==
    Handled => call.version = HighestVersion(secrets, call.userID)

\* C11: a Sync handled for one owner leaves every row of another owner as it
\* was, creates rows for its own owner only and returns rows of its own owner
\* only, also when it submits a secret under an id that a row of another
\* owner uses.
C11_OwnersIsolated ==
    Handled =>
        /\ \A id \in DOMAIN call.before :
              call.before[id].user_login # call.userID
              => /\ id \in DOMAIN secrets
                 /\ secrets[id] = call.before[id]
        /\ \A id \in DOMAIN secrets \ DOMAIN call.before :
              secrets[id].user_login = call.userID
        /\ \A s \in call.secrets : Owns(secrets, call.userID, s.id)

\* the request whose answer is being written
Answering == served # NoRequest

\* the request carries at least one peer certificate
CarriesCertificate(r) == r.tls /\ Len(r.certs) >= 1

\* C12: the certificate gate calls the downstream handler exactly when the
\* path is /api/register or the TLS session carries a peer certificate;
\* otherwise the answer is 401, no handler runs and neither table changes.
C12_GateInvokesIff ==
    Answering =>
        LET r == served.req
            allowed == r.path = "/api/register" \/ CarriesCertificate(r)
        IN /\ served.next <=> allowed
           /\ ~allowed => /\ served.status = 401
                          /\ served.handler = "none"
                          /\ served.service = {}
                          /\ served.cert = {}
                          /\ secrets = served.before
                          /\ users = served.usersBefore

\* a sync request with a secret to write, sent without a certificate to a
\* server that has an enrolled user, has been answered 401
C12_Witness ==
    /\ Answering
    /\ served.req.path = "/api/sync"
    /\ served.req.tls /\ served.req.certs = <<>>
    /\ served.req.body.valid /\ served.req.body.secrets # <<>>
    /\ users # {}
    /\ served.status = 401 /\ ~served.next

\* C13: for a request outside /api/register that carries a peer certificate,
\* the identity handed downstream and the owner of every store operation of
\* its Sync is the CommonName of the first peer certificate: table and answer
\* are those of Sync run for that owner, whatever the body says.
C13_OwnerIsFirstCertificate ==
    (Answering /\ served.req.path # "/api/register"
        /\ CarriesCertificate(served.req))
    => LET cn == served.req.certs[1].cn
           body == served.req.body
           res == SyncResult(served.before, cn, body.secrets, body.versions)
       IN /\ served.user = cn
          /\ \A x \in served.service : x.userID = cn
          /\ (served.handler = "Sync" /\ served.status = 200)
                => /\ secrets = res.table
                   /\ served.service =
                        {[userID |-> cn, err |-> FALSE, version |-> res.version,
                          updated |-> res.updated, skipped |-> res.skipped,
                          secrets |-> res.secrets]}

\* a Sync has written for the owner of the first of two certificates with
\* different CommonNames, the body naming another login
C13_Witness ==
    /\ Answering
    /\ served.handler = "Sync" /\ served.status = 200
    /\ Len(served.req.certs) = 2
    /\ served.req.certs[1].cn # served.req.certs[2].cn
    /\ served.req.body.login \notin {"", served.req.certs[1].cn}
    /\ secrets # served.before
    /\ "s1" \in DOMAIN secrets
    /\ secrets["s1"].user_login = served.req.certs[1].cn

\* C14: enrollment with a login that is in the table users, the existence
\* check answering, is answered 409: no certificate is returned and the
\* table users is as it was.
C14_DuplicateLoginConflict ==
    (Answering /\ served.handler = "Register"
        /\ served.req.body.valid
        /\ served.req.body.login \in served.usersBefore
        /\ served.fault # "UserExists")
    => /\ served.status = 409
       /\ served.cert = {}
       /\ users = served.usersBefore
       /\ secrets = served.before

\* an enrolled login has been refused a second enrollment
C14_Witness ==
    /\ Answering
    /\ served.handler = "Register"
    /\ served.req.body.login \in served.usersBefore
    /\ served.status = 409
    /\ served.cert = {}

\* C15: enrollment of a login that is not in the table users, no step
\* failing, is answered 200 with a certificate signed by the CA whose
\* CommonName is the login, and the login is in the table users; a Sync
\* request whose first certificate was issued by enrollment runs for the
\* CommonName of that certificate, an enrolled login.
C15_EnrollmentIssuesCertificate ==
    /\ (Answering /\ served.handler = "Register"
            /\ served.req.body.valid
            /\ served.req.body.login \notin served.usersBefore \cup {""}
            /\ served.fault = "none")
       => /\ served.status = 200
          /\ served.req.body.login \in users
          /\ \E c \in issued :
                /\ served.cert = {c}
                /\ c.cn = served.req.body.login
                /\ c.issuer = "GophKeeper CA"
    /\ (Answering /\ served.handler = "Sync"
            /\ served.req.certs[1] \in issued)
       => /\ served.req.certs[1].cn \in users
          /\ served.user = served.req.certs[1].cn
          /\ \A x \in served.service : x.userID = served.req.certs[1].cn

\* bob, enrolled by the server, has presented the certificate he was issued
\* and his Sync has stored a secret as his
C15_Witness ==
    /\ Answering
    /\ served.handler = "Sync" /\ served.status = 200
    /\ served.req.certs[1] \in issued
    /\ served.req.certs[1].cn = "bob"
    /\ "s1" \in DOMAIN secrets
    /\ "s1" \notin DOMAIN served.before
    /\ secrets["s1"].user_login = "bob"

\* the body of the cleaner's loop has just run
PassRan == jan.pc = "ran"

\* C16: a pass of the cleaner whose DELETE is executed removes exactly the
\* rows that are tombstoned with a version below the cutoff, the time of the
\* pass minus the retention window; every other row, newer tombstones and
\* live rows of any version, stays as it was.
C16_PassRemovesOldTombstones ==
    (PassRan /\ ~jan.last.err)
    => LET b == jan.last.before
           a == jan.last.after
           cutoff == jan.last.t - Retention
       IN /\ DOMAIN a = {id \in DOMAIN b :
                            ~(b[id].deleted /\ b[id].version < cutoff)}
          /\ \A id \in DOMAIN a : a[id] = b[id]

\* a pass has removed an old tombstone and kept a tombstone at the cutoff
C16_Witness ==
    /\ PassRan /\ ~jan.last.err
    /\ \E id \in DOMAIN jan.last.before : id \notin DOMAIN jan.last.after
    /\ \E id \in DOMAIN jan.last.after :
          /\ jan.last.after[id].deleted
          /\ jan.last.after[id].version = jan.last.t - Retention

\* C17: a pass that fails is logged and does not end the cleaner: while the
\* context is not cancelled the goroutine has not exited, and a tick waiting
\* at its select is followed by another pass (or by the cancellation).
C17_FailedPassDoesNotStop ==
    /\ []((PassRan /\ jan.last.err) => LogFailed \in jan.log)
    /\ []((LogFailed \in jan.log /\ ~jan.cancelled) => jan.pc # "exited")
    /\ ((LogFailed \in jan.log /\ jan.pc = "select" /\ jan.pending /\ ~jan.cancelled)
            ~> (PassRan \/ jan.cancelled))

\* after a failed pass, a later pass has removed a tombstone
C17_Witness ==
    /\ LogFailed \in jan.log
    /\ ~jan.cancelled
    /\ PassRan /\ ~jan.last.err
    /\ jan.last.after # jan.last.before

LiveRecords(l, id) ==
    {i \in DOMAIN l.Secrets : l.Secrets[i].id = id /\ ~l.Secrets[i].deleted}

\* C19: get <id> returns a secret exactly when the cache holds a record with
\* that id that is not a tombstone, and the secret returned is such a record;
\* after a Delete that returned true, Get of the same id returns nothing.
C19_GetFindsLiveSecrets ==
    /\ ret.op = "get"
          => /\ (ret.got # {}) <=> (LiveRecords(ret.before, ret.id) # {})
             /\ \A s \in ret.got : s.id = ret.id /\ ~s.deleted
    /\ (ret.op = "delete" /\ ret.ok) => Get(ls, ret.id) = {}

\* C20: Delete of an id with a live record returns true and leaves every
\* record in place, the first live record of the id now a tombstone with the
\* id and payload it had; Delete of an id with no live record returns false
\* and leaves the cache as it was; and one more Delete of the same id, at any
\* time, returns false and changes nothing.
C20_DeleteTombstonesOnce ==
    ret.op = "delete"
    => LET b == ret.before
           live == LiveRecords(b, ret.id)
       IN /\ ret.ok <=> (live # {})
          /\ ~ret.ok => ls = b
          /\ ret.ok =>
                LET i == FirstIndex(b.Secrets, live)
                IN /\ Len(ls.Secrets) = Len(b.Secrets)
                   /\ \A j \in DOMAIN b.Secrets \ {i} : ls.Secrets[j] = b.Secrets[j]
                   /\ ls.Secrets[i].id = ret.id
                   /\ ls.Secrets[i].data = b.Secrets[i].data
                   /\ ls.Secrets[i].deleted
                   /\ ls.Version = b.Version
          /\ \A t \in 1..MaxClock :
                Delete(ls, ret.id, t) = [ls |-> ls, ok |-> FALSE]

\* a Delete has returned true in a cache of two secrets, the other one live
C20_Witness ==
    /\ ret.op = "delete" /\ ret.ok
    /\ Len(ls.Secrets) = 2
    /\ \E i \in DOMAIN ls.Secrets :
          ls.Secrets[i].id = ret.id /\ ls.Secrets[i].deleted
    /\ \E i \in DOMAIN ls.Secrets :
          ls.Secrets[i].id # ret.id /\ ~ls.Secrets[i].deleted

\* C29: the cache's Version is a high-water mark: no record of the cache
\* has a version above it, and a shell command never leaves it lower than
\* it found it.
C29_VersionIsHighWaterMark ==
    /\ \A i \in DOMAIN ls.Secrets : ls.Secrets[i].version <= ls.Version
    /\ ret # NoCmd => ls.Version >= ret.before.Version

\* C30: every leaf certificate, those Register has issued and those of the
\* generation tool, permits client and server authentication and is not a
\* CA certificate.
C30_LeafPermitsBothUsages ==
    \A c \in issued \cup ToolCerts :
        /\ {"ClientAuth", "ServerAuth"} \subseteq c.extKeyUsage
        /\ ~c.isCA

\* C21: Edit of an id that has no live record in the cache, absent or
\* tombstoned, returns false and leaves the records and the Version of the
\* cache as they were.
C21_EditOfMissingFails ==
    (ret.op = "edit" /\ LiveRecords(ret.before, ret.id) = {})
    => /\ ~ret.ok
       /\ ls.Secrets = ret.before.Secrets
       /\ ls.Version = ret.before.Version

\* an Edit of a tombstoned id has returned false next to a live secret
C21_Witness ==
    /\ ret.op = "edit" /\ ~ret.ok
    /\ \E i \in DOMAIN ls.Secrets :
          ls.Secrets[i].id = ret.id /\ ls.Secrets[i].deleted
    /\ \E i \in DOMAIN ls.Secrets :
          ls.Secrets[i].id # ret.id /\ ~ls.Secrets[i].deleted

\* C23: Load gives back what Save wrote: saving any cache the client
\* reaches and loading the file yields its records, tombstones included, and
\* its Version, with the index equal to the ids flagged deleted; a client
\* started again holds the cache it had saved, and with no file the empty
\* cache of Version 0.
C23_LoadRestoresSaved ==
    /\ LET l == Load(Save(ls))
       IN /\ l.Secrets = ls.Secrets
          /\ l.Version = ls.Version
          /\ l.deleted = FlaggedIds(ls.Secrets)
    /\ ret.op = "load"
          => IF file.exists
             THEN /\ ls.Secrets = ret.before.Secrets
                  /\ ls.Version = ret.before.Version
                  /\ ls.deleted = FlaggedIds(ls.Secrets)
             ELSE ls = [Secrets |-> <<>>, Version |-> 0, deleted |-> {}]

\* a client started again has loaded a tombstone and a live secret
C23_Witness ==
    /\ ret.op = "load"
    /\ file.exists
    /\ \E i \in DOMAIN ls.Secrets : ls.Secrets[i].deleted
    /\ \E i \in DOMAIN ls.Secrets : ~ls.Secrets[i].deleted
    /\ ls.deleted # {}

\* a SyncWithServer call has just returned
SyncReturned == loop = "done" /\ sy.ran

\* C25: a SyncWithServer call whose round trip fails, by a transport error,
\* a status other than 200 or a body that does not decode, returns an error
\* and leaves the cache, records and Version, and the storage file as they
\* were.
C25_FailedSyncChangesNothing ==
    (SyncReturned /\ ( \/ sy.reply.kind = "transport"
                       \/ sy.reply.status # 200
                       \/ ~sy.reply.decodes))
    => /\ sy.err # "none"
       /\ ls = sy.before
       /\ file = sy.file

\* a call has returned "server error" for a 500 whose body decodes, on a
\* cache that holds a secret
C25_Witness ==
    /\ SyncReturned
    /\ sy.err = "server error"
    /\ sy.reply.decodes
    /\ ls.Secrets # <<>>
    /\ ls.Secrets # sy.reply.body.secrets

C27_SyncLoopRetries ==
    /\ [](loop # "exited")
    /\ ((SyncReturned /\ sy.err # "none") ~> (loop = "post"))
    /\ (<>[]online => []<>(SyncReturned /\ sy.err = "none"))

\* after a failed call, with the server up again, a call has succeeded
C27_Witness ==
    /\ SyncReturned /\ sy.err = "none"
    /\ sy.retry
    /\ online
    /\ sy.reply.body.secrets # <<>>
    /\ sy.before.Secrets # sy.reply.body.secrets
    /\ now = 2

\* no goroutine of the client is inside a method of the cache, a
\* SyncWithServer call or a Save
Quiet == \A x \in Threads : th[x].pc = "idle"

\* C24: whenever no shell command, sync or Save is in progress, storage.json
\* holds the cache as it is in memory, records and Version; with no file the
\* cache is empty.
C24_FileFollowsCache ==
    Quiet => IF file.exists
             THEN file = Save(ls)
             ELSE ls.Secrets = <<>> /\ ls.Version = 0

\* goroutine x is reading or writing ls.Secrets or ls.Version: it is inside
\* a method that holds ls.mu, or its encoder is between its two reads
Accessing(x) == th[x].pc \in {"locked", "snapshot", "encoding"}

\* C28: no two accesses to the records or the Version of the cache overlap:
\* at no time are the shell and the sync loop both inside one.
C28_AccessesSerialized ==
    ~(Accessing("shell") /\ Accessing("sync"))

\* C22: for every plaintext, the empty one and those with bytes that are
\* not text included, what List shows with the key Edit sealed with is that
\* plaintext, byte for byte.
C22_EditListRoundTrip ==
    (box.pc = "shown" /\ box.listKey = box.key)
    => box.out = [shown |-> "Data", text |-> box.plain]

\* List has shown a plaintext of three different bytes, NUL and 255 among
\* them, sealed under a nonce that is not zero
C22_Witness ==
    /\ box.pc = "shown"
    /\ box.listKey = box.key
    /\ box.plain = <<0, 255, 65>>
    /\ box.out.text = <<0, 255, 65>>
    /\ DecodeString(box.data).bytes[1] # 0

\* the live secrets of incoming that carry id
Pushed(incoming, id) ==
    {incoming[i] : i \in {j \in DOMAIN incoming :
                            incoming[j].id = id /\ ~incoming[j].deleted}}

\* C31: Sync writes first (tombstones, then live secrets) and reads
\* afterwards: the secrets it returns are the caller's live rows of the table
\* as the call left it that the client does not know or knows at a lower
\* version.  A returned secret whose id the call reports as updated is one
\* the request pushed, and it is returned only if its id is missing from
\* clientVersions or its pushed version is above clientVersions[id].
C31_PullFollowsWrites ==
    Handled =>
        /\ call.secrets = GetNewerSecrets(secrets, call.userID, call.versions)
        /\ \A s \in call.secrets :
              s.id \in Range(call.updated)
              => /\ s \in Pushed(call.incoming, s.id)
                 /\ \/ s.id \notin DOMAIN call.versions
                    \/ s.version > call.versions[s.id]

\* a call that replaced a row the client knew at a lower version, and
\* returned the secret it had just written
C31_Witness ==
    /\ Handled
    /\ \E s \in call.secrets :
          /\ s.id \in Range(call.updated)
          /\ s.id \in DOMAIN call.versions
          /\ s.id \in DOMAIN call.before
          /\ call.before[s.id].deleted = FALSE
          /\ call.before[s.id].user_login = call.userID
          /\ call.before[s.id].version < s.version
          /\ call.versions[s.id] < s.version

\* C32: the version a Sync returns is GetMaxVersion of the caller read after
\* the call's writes, and it is at least the version stored under every id
\* the call reports in updated.
C32_VersionCoversUpdated ==
    Handled =>
        /\ call.version = GetMaxVersion(secrets, call.userID)
        /\ \A id \in Range(call.updated) :
              /\ id \in DOMAIN secrets
              /\ call.version >= secrets[id].version

\* C33: a Sync whose incoming is empty writes nothing: the table is as the
\* call found it, updated and skipped are empty, and the call still returns
\* the caller's live rows the client does not know or knows at a lower
\* version, and the caller's highest live version.
C33_EmptySyncIsPurePull ==
    (Handled /\ call.incoming = <<>>) =>
        /\ secrets = call.before
        /\ call.updated = <<>>
        /\ call.skipped = <<>>
        /\ call.secrets = GetNewerSecrets(call.before, call.userID, call.versions)
        /\ call.version = GetMaxVersion(call.before, call.userID)

\* a pull that returned a secret: the client knew the id at a lower version
C33_Witness ==
    /\ Handled
    /\ call.incoming = <<>>
    /\ call.version > 0
    /\ \E s \in call.secrets :
          s.id \in DOMAIN call.versions /\ call.versions[s.id] < s.version

\* the table a Sync leaves when it stops at the failing call `step`
LeftBy(t, userID, incoming, step) ==
    LET toDelete == {incoming[i].id :
                        i \in {j \in DOMAIN incoming : incoming[j].deleted}}
        marked == [id \in DOMAIN t |->
                      IF t[id].user_login = userID /\ id \in toDelete
                      THEN [t[id] EXCEPT !.deleted = TRUE] ELSE t[id]]
    IN CASE step = "DeleteSecrets" -> t
         [] step = "UpsertIfNewer" -> marked
         [] OTHER -> SyncResult(t, userID, incoming, <<>>).table

\* C34: a Sync one of whose repository calls fails returns the error with no
\* result and makes no later call: the table holds the writes of the calls
\* before the failing one and nothing else.  The same Sync repeated on that
\* table, with the store working, leaves the table that one successful run
\* on the table the failed call found would have left.
C34_FailedSyncRetryConverges ==
    /\ (Handled /\ call.op = "SyncError") =>
          /\ call.result = NoResult
          /\ secrets = LeftBy(call.before, call.userID, call.incoming, call.step)
    /\ (Handled /\ call.op = "SyncRetry") =>
          secrets = SyncResult(call.before, call.userID, call.incoming,
                               call.versions).table

\* a retry after UpsertIfNewer failed: the tombstone of the request was
\* already written, the live secret was not, and the retry wrote it
C34_Witness ==
    /\ Handled
    /\ call.op = "SyncRetry"
    /\ call.step = "UpsertIfNewer"
    /\ call.partial # call.before
    /\ call.partial # secrets

\* an enrollment of an unused login at which LoadCACredentials or
\* GenerateUserCertificate failed
CertStepFailed ==
    /\ Answering
    /\ served.handler = "Register"
    /\ served.req.body.valid
    /\ served.req.body.login \notin served.usersBefore \cup {""}
    /\ served.fault \in {"LoadCACredentials", "GenerateUserCertificate"}

\* C35: an enrollment at which loading the CA credentials or generating the
\* leaf fails is answered with an error and no certificate, the login is not
\* inserted into users and no certificate for it exists, and the same
\* request is answered 200 once no step fails.
C35_FailedIssuanceEnrollsNothing ==
    CertStepFailed =>
        /\ served.status = 500
        /\ served.cert = {}
        /\ users = served.usersBefore
        /\ \A c \in issued : c.cn # served.req.body.login
        /\ RegisterAnswer(served.req, "none") = 200

\* bob's enrollment failed at GenerateUserCertificate while alice is enrolled
C35_Witness ==
    /\ CertStepFailed
    /\ served.fault = "GenerateUserCertificate"
    /\ served.req.body.login = "bob"
    /\ users = {"alice"}

\* C36: for every login, at most one enrollment response carries a
\* certificate, also when the handlers of two enrollments of the same unused
\* login run at the same time.
C36_OneCertificatePerLogin ==
    \A login \in Owners : enr.sent[login] <= 1

\* C37: a tombstone made through Sync is removed by a pass of the cleaner
\* only when the retention window has passed since the secret was
\* tombstoned, whatever version the row carries.
C37_TombstoneKeptForRetention ==
    \A x \in srv.last : x.at + Retention <= srv.now

\* the records the shell has added, edited or deleted since the sync call
\* took its payload, as the cache held them when the response was applied
ChangedInFlight == sy.changed

\* C38: a record the shell has added, edited or deleted between the sync
\* call's snapshot and the assignment of the response is in the cache, as the
\* shell left it, when the sync call has returned.
C38_InFlightMutationKept ==
    (SyncReturned /\ sy.err = "none") =>
        \A s \in ChangedInFlight : \E i \in DOMAIN ls.Secrets : ls.Secrets[i] = s

\* the ids whose record in cache l carries the deleted flag
Flagged(l) == {l.Secrets[i].id : i \in {j \in DOMAIN l.Secrets : l.Secrets[j].deleted}}

\* C39: the deleted-id index of the cache holds exactly the ids whose record
\* carries the deleted flag, in every state the shell's commands, Load and
\* the applied sync responses leave, so that the cache Load rebuilds from
\* the saved file is the cache in memory.
C39_IndexMatchesFlags ==
    /\ ls.deleted = Flagged(ls)
    /\ (file.exists /\ file = Save(ls)) => Load(file) = ls

\* C40: ls.mu is held only inside a method of the cache and inside the two
\* locked sections of SyncWithServer, never while SyncWithServer is in
\* client.Post or the shell waits for the user, so a method the shell calls
\* during the round trip finds the mutex free or held by no sync call; every
\* holder releases the mutex, and the sync call that waits for it to assign
\* the response gets it.
C40_LockNotHeldAcrossWaits ==
    /\ [](mu = "sync" <=> th["sync"].pc \in {"snapshot", "locked"})
    /\ [](mu = "shell" <=> th["shell"].pc = "locked")
    /\ [](th["sync"].pc = "post" => mu # "sync")
    /\ ((mu # "free") ~> (mu = "free"))
    /\ ((th["sync"].pc = "post" /\ th["shell"].pc = "locked")
            ~> (th["shell"].pc # "locked"))
    /\ ((th["sync"].pc = "decoded") ~> (th["sync"].pc = "locked"))

\* the shell is inside Edit, holding the mutex, while the sync call waits
\* for the server
C40_Witness ==
    /\ th["sync"].pc = "post"
    /\ th["shell"].pc = "locked"
    /\ th["shell"].arg.op = "edit"
    /\ mu = "shell"

====
